---- MODULE Spec2Model ----
(***************************************************************************)
(* Air India chatbot: ConversationContext, IntentDetector, the flight      *)
(* parameter extraction of flight_data/utils.py and the country filter of  *)
(* SimpleRAGHandler.search.                                                *)
(*                                                                         *)
(* Text is modelled as TLA+ strings handled character by character         *)
(* (Len, SubSeq, \o), so that lower(), find(), startswith() and the        *)
(* regular expressions of the source are computed, not assumed.            *)
(***************************************************************************)
EXTENDS Integers, Sequences, FiniteSets, TLC

(***************************************************************************)
(* Python str primitives                                                   *)
(***************************************************************************)
LowerAZ == "abcdefghijklmnopqrstuvwxyz"
UpperAZ == "ABCDEFGHIJKLMNOPQRSTUVWXYZ"
DigitChars == {"0", "1", "2", "3", "4", "5", "6", "7", "8", "9"}
LowerChars == {SubSeq(LowerAZ, i, i) : i \in 1..26}
UpperChars == {SubSeq(UpperAZ, i, i) : i \in 1..26}
\* \w of the re module (ASCII part): letters, digits, underscore
WordChars == LowerChars \cup UpperChars \cup DigitChars \cup {"_"}
\* \s of the re module (the representable part)
SpaceChars == {" ", "\t", "\n"}

Char(s, i) == IF i >= 1 /\ i <= Len(s) THEN SubSeq(s, i, i) ELSE ""

LowerChar(c) ==
    IF c \in UpperChars
    THEN SubSeq(LowerAZ, CHOOSE i \in 1..26 : SubSeq(UpperAZ, i, i) = c,
                         CHOOSE i \in 1..26 : SubSeq(UpperAZ, i, i) = c)
    ELSE c

UpperChar(c) ==
    IF c \in LowerChars
    THEN SubSeq(UpperAZ, CHOOSE i \in 1..26 : SubSeq(LowerAZ, i, i) = c,
                         CHOOSE i \in 1..26 : SubSeq(LowerAZ, i, i) = c)
    ELSE c

RECURSIVE str_lower(_)
str_lower(s) ==
    IF Len(s) = 0 THEN ""
    ELSE LowerChar(SubSeq(s, 1, 1)) \o str_lower(SubSeq(s, 2, Len(s)))

RECURSIVE str_upper(_)
str_upper(s) ==
    IF Len(s) = 0 THEN ""
    ELSE UpperChar(SubSeq(s, 1, 1)) \o str_upper(SubSeq(s, 2, Len(s)))

\* s.strip(): leading and trailing whitespace removed
RECURSIVE str_strip(_)
str_strip(s) ==
    IF Len(s) = 0 THEN ""
    ELSE IF Char(s, 1) \in SpaceChars THEN str_strip(SubSeq(s, 2, Len(s)))
    ELSE IF Char(s, Len(s)) \in SpaceChars THEN str_strip(SubSeq(s, 1, Len(s) - 1))
    ELSE s

\* sub in s
str_in(sub, s) ==
    \E i \in 1..(Len(s) - Len(sub) + 1) : SubSeq(s, i, i + Len(sub) - 1) = sub

\* s.find(sub): 0-based index of the first occurrence, -1 when absent
str_find(s, sub) ==
    IF str_in(sub, s)
    THEN (CHOOSE i \in 1..(Len(s) - Len(sub) + 1) :
             /\ SubSeq(s, i, i + Len(sub) - 1) = sub
             /\ \A j \in 1..(i - 1) : SubSeq(s, j, j + Len(sub) - 1) # sub) - 1
    ELSE -1

\* s.startswith(prefix)
str_startswith(s, prefix) ==
    Len(prefix) <= Len(s) /\ SubSeq(s, 1, Len(prefix)) = prefix

\* int(s) for a string of decimal digits
DigitValue(c) == CHOOSE d \in 0..9 : SubSeq("0123456789", d + 1, d + 1) = c

RECURSIVE str_int(_)
str_int(s) ==
    IF Len(s) = 0 THEN 0
    ELSE 10 * str_int(SubSeq(s, 1, Len(s) - 1)) + DigitValue(Char(s, Len(s)))

(***************************************************************************)
(* Regular expressions of the source.  A pattern is a sequence of          *)
(* elements; an element maps the set of positions reached so far to the    *)
(* set of positions reachable after it (1-based, position p = before the   *)
(* p-th character).  re.search(pattern, s) succeeds iff some start         *)
(* position reaches the end of the pattern.                                *)
(*   [t |-> "alt",  a |-> S]   one of the literal strings of S ("" = ?)    *)
(*   [t |-> "plus", a |-> C]   one or more characters of the class C       *)
(*   [t |-> "star", a |-> C]   zero or more characters of the class C      *)
(*   [t |-> "b",    a |-> {}]  \b                                          *)
(***************************************************************************)
Lit(str) == [t |-> "alt", a |-> {str}]
Alt(S) == [t |-> "alt", a |-> S]
Plus(C) == [t |-> "plus", a |-> C]
Star(C) == [t |-> "star", a |-> C]
WordB == [t |-> "b", a |-> {}]

Max(S) == CHOOSE x \in S : \A y \in S : y <= x
Min(S) == CHOOSE x \in S : \A y \in S : x <= y

IsWordAt(s, p) == Char(s, p) \in WordChars
IsBoundary(s, p) == IsWordAt(s, p - 1) # IsWordAt(s, p)

\* the positions reachable from p over characters of C: p up to the first
\* character outside C (the end of s counts as one)
RunFrom(s, p, C) == p..Min({q \in p..(Len(s) + 1) : Char(s, q) \notin C})

StepElem(e, s, P) ==
    CASE e.t = "alt" ->
           {p + Len(w) : <<p, w>> \in
               {pw \in P \X e.a : /\ pw[1] + Len(pw[2]) - 1 <= Len(s)
                                  /\ SubSeq(s, pw[1], pw[1] + Len(pw[2]) - 1) = pw[2]}}
      [] e.t = "plus" -> UNION {RunFrom(s, p, e.a) \ {p} : p \in P}
      [] e.t = "star" -> UNION {RunFrom(s, p, e.a) : p \in P}
      [] e.t = "b" -> {p \in P : IsBoundary(s, p)}

RECURSIVE MatchEnds(_, _, _)
MatchEnds(pat, s, P) ==
    IF pat = <<>> \/ P = {} THEN P
    ELSE MatchEnds(Tail(pat), s, StepElem(Head(pat), s, P))

\* pattern.search(s) is not None
re_search(pat, s) == MatchEnds(pat, s, 1..(Len(s) + 1)) # {}

\* start (1-based) of the leftmost match, 0 when there is none
re_search_start(pat, s) ==
    IF re_search(pat, s)
    THEN CHOOSE i \in 1..(Len(s) + 1) :
            /\ MatchEnds(pat, s, {i}) # {}
            /\ \A j \in 1..(i - 1) : MatchEnds(pat, s, {j}) = {}
    ELSE 0

(***************************************************************************)
(* Values.  Python None is "<None>" for an optional string and <<>> for an *)
(* optional object (<<x>> is the object x); a dict is a function on its    *)
(* keys.                                                                   *)
(***************************************************************************)
None == "<None>"
NoObject == <<>>
Some(x) == <<x>>
EmptyDict == [key \in {} |-> None]
DictGet(d, key, default) == IF key \in DOMAIN d THEN d[key] ELSE default
\* bool(d) for a dict
DictTruthy(d) == DOMAIN d # {}

\* context_manager.IntentType: the members and their .value
FLIGHT_SEARCH == "IntentType.FLIGHT_SEARCH"
POLICY_QUESTION == "IntentType.POLICY_QUESTION"
GENERAL_CHAT == "IntentType.GENERAL_CHAT"
UNKNOWN == "IntentType.UNKNOWN"
IntentType == {FLIGHT_SEARCH, POLICY_QUESTION, GENERAL_CHAT, UNKNOWN}
IntentValue(member) ==
    CASE member = FLIGHT_SEARCH -> "flight_search"
      [] member = POLICY_QUESTION -> "policy_question"
      [] member = GENERAL_CHAT -> "general_chat"
      [] member = UNKNOWN -> "unknown"
IntentValues == {IntentValue(m) : m \in IntentType}

(***************************************************************************)
(* Bounds of the model                                                     *)
(***************************************************************************)
\* add_message calls in one behaviour of the context specification
MaxAdds == 2
\* largest max_history a context is constructed with
MaxHistory == 2
\* longest list of flights handed to update_flight_results
MaxFlights == 5
\* number of vocabulary items joined into one follow-up message
MaxWords == 2
\* number of vocabulary items joined into one flight request
MaxExtractWords == 3
\* number of vocabulary items joined into one message to classify
MaxIntentWords == 2
\* longest ranking the vector store returns
MaxDocs == 3
\* largest k asked of search
MaxK == 3
\* turns of one conversation with the engine
MaxTurns == 2

(***************************************************************************)
(* Flight records as the flight-data collaborators produce them: the two   *)
(* keys resolve_reference reads.  Departure times are the zero-padded      *)
(* HH:MM strings of the generators, flight numbers "<prefix> <digits>".    *)
(***************************************************************************)
Flight(number, departure) == [flight_number |-> number, departure_time |-> departure]
NoFlight == Flight(None, None)
FlightCatalog ==
    << Flight("AIX 45", "06:00"), Flight("AI 677", "09:30"), Flight("AI 865", "12:15"),
       Flight("IX 123", "18:30"), Flight("AI 123", "21:00") >>

\* the runs of consecutive catalog entries, in departure order as both
\* generators sort their result, and the empty list
FlightLists ==
    {<<>>} \cup {SubSeq(FlightCatalog, i, j) :
                    <<i, j>> \in {ij \in (1..Len(FlightCatalog)) \X (1..Len(FlightCatalog)) :
                                     ij[1] <= ij[2] /\ ij[2] - ij[1] < MaxFlights}}

(***************************************************************************)
(* State                                                                   *)
(***************************************************************************)
VARIABLES
    max_history,            \* ConversationContext.max_history
    history,                \* ConversationContext.history: sequence of Message
    current_flight_search,  \* Optional[Dict]: NoObject or Some([search_params, results])
    last_intent,            \* Optional[IntentType]
    last_parameters,        \* Optional[Dict]
    last_flight_results,    \* List[Dict]
    added,                  \* history variable: every Message added since __init__ or clear()
    budget,                 \* add_message calls still allowed in this behaviour
    user_message,           \* the text handed to the function under study
    is_initialized,         \* SimpleRAGHandler.is_initialized
    db_docs,                \* what the vector store ranks for the query, best first
    resource_cache,         \* st.cache_resource: NoObject, or Some(id of the cached context)
    session_state,          \* per session, st.session_state.conversation_context
    turns,                  \* history variable: per session, the turns it has processed
    ret                     \* the last call and the value it returned

ctx == <<max_history, history, current_flight_search, last_intent,
         last_parameters, last_flight_results>>
rag == <<is_initialized, db_docs>>
app == <<resource_cache, session_state, turns>>
vars == <<max_history, history, current_flight_search, last_intent,
          last_parameters, last_flight_results, added, budget, user_message,
          is_initialized, db_docs, resource_cache, session_state, turns, ret>>

\* context_manager.Message (the timestamp is not modelled: nothing reads it)
Message(role, content, intent, parameters) ==
    [role |-> role, content |-> content, intent |-> intent, parameters |-> parameters]

(***************************************************************************)
(* ConversationContext.resolve_reference                                   *)
(***************************************************************************)
NoReference ==
    [has_reference |-> FALSE, reference_type |-> None, referenced_flight |-> NoFlight,
     flight_number |-> None, departure_time |-> None, ordinal |-> None]

\* re.search(r"(\d{1,2}):?(\d{2})?\s*(?:am|pm)?", s).group(1): every part after
\* the first group is optional, so the match starts at the first digit and
\* group 1 is that digit and the next character when it is a digit too
time_hour(message_lower) ==
    LET at == re_search_start(<<Plus(DigitChars)>>, message_lower)
    IN  IF at = 0 THEN None
        ELSE IF Char(message_lower, at + 1) \in DigitChars
             THEN SubSeq(message_lower, at, at + 1)
             ELSE SubSeq(message_lower, at, at)

\* ordinal_map, in the insertion order the for loop walks it
ordinal_map ==
    << [ordinal |-> "first", index |-> 0], [ordinal |-> "second", index |-> 1],
       [ordinal |-> "third", index |-> 2], [ordinal |-> "fourth", index |-> 3],
       [ordinal |-> "fifth", index |-> 4], [ordinal |-> "last", index |-> -1],
       [ordinal |-> "previous", index |-> -1] >>

\* the entries of ordinal_map that do not hit "continue"
OrdinalHits(message_lower, flights) ==
    {k \in 1..Len(ordinal_map) :
        /\ str_in(ordinal_map[k].ordinal, message_lower)
        /\ \/ ordinal_map[k].index >= 0 /\ ordinal_map[k].index < Len(flights)
           \/ ordinal_map[k].index = -1 /\ flights # <<>>}

\* re.search(r"(?:AI|AIX)\s*\d+", s).group(0), None without a match.  Both
\* alternatives start with AI; the leftmost start wins, then AI before AIX,
\* then the longest run of whitespace and digits.
FlightNumAI == <<Lit("AI"), Star(SpaceChars), Plus(DigitChars)>>
FlightNumAIX == <<Lit("AIX"), Star(SpaceChars), Plus(DigitChars)>>
flight_num_match(message_upper) ==
    LET starts == {i \in 1..Len(message_upper) :
                      MatchEnds(FlightNumAI, message_upper, {i}) # {}
                      \/ MatchEnds(FlightNumAIX, message_upper, {i}) # {}}
    IN  IF starts = {} THEN None
        ELSE LET i == Min(starts)
                 ai == MatchEnds(FlightNumAI, message_upper, {i})
                 aix == MatchEnds(FlightNumAIX, message_upper, {i})
             IN  SubSeq(message_upper, i, (IF ai # {} THEN Max(ai) ELSE Max(aix)) - 1)

generic_refs == <<"that", "it", "this", "the flight">>

\* lines 147-165: reference by time
TimeRule(message_lower, flights) ==
    LET hour == time_hour(message_lower)
        hits == IF hour = None THEN {}
                ELSE {i \in 1..Len(flights) :
                         str_startswith(flights[i].departure_time, hour)}
    IN  IF hits = {} THEN NoReference
        ELSE LET flight == flights[Min(hits)]
             IN  [NoReference EXCEPT !.has_reference = TRUE, !.reference_type = "time",
                                     !.referenced_flight = flight,
                                     !.flight_number = flight.flight_number,
                                     !.departure_time = flight.departure_time]

\* OrdinalRule with "last"/"previous" indexing the front of the list
OrdinalRule_last_is_first(message_lower, flights) ==
    LET hits == OrdinalHits(message_lower, flights)
    IN  IF hits = {} THEN NoReference
        ELSE LET entry == ordinal_map[Min(hits)]
                 flight == IF entry.index >= 0 THEN flights[entry.index + 1]
                           ELSE flights[1]
             IN  [NoReference EXCEPT !.has_reference = TRUE, !.reference_type = "ordinal",
                                     !.referenced_flight = flight,
                                     !.flight_number = flight.flight_number,
                                     !.ordinal = entry.ordinal]

\* lines 167-189: reference by ordinal
OrdinalRule(message_lower, flights) ==
    LET hits == OrdinalHits(message_lower, flights)
    IN  IF hits = {} THEN NoReference
        ELSE LET entry == ordinal_map[Min(hits)]
                 flight == IF entry.index >= 0 THEN flights[entry.index + 1]
                           ELSE flights[Len(flights)]
             IN  [NoReference EXCEPT !.has_reference = TRUE, !.reference_type = "ordinal",
                                     !.referenced_flight = flight,
                                     !.flight_number = flight.flight_number,
                                     !.ordinal = entry.ordinal]

\* lines 191-205: reference by flight number
FlightNumberRule(message_upper, flights) ==
    LET flight_num == flight_num_match(message_upper)
        hits == IF flight_num = None THEN {}
                ELSE {i \in 1..Len(flights) : flights[i].flight_number = flight_num}
    IN  IF hits = {} THEN NoReference
        ELSE [NoReference EXCEPT !.has_reference = TRUE, !.reference_type = "flight_number",
                                 !.referenced_flight = flights[Min(hits)],
                                 !.flight_number = flight_num]

\* lines 207-219: generic reference
GenericRule(message_lower, flights) ==
    IF (\E k \in 1..Len(generic_refs) : str_in(generic_refs[k], message_lower))
       /\ flights # <<>>
    THEN [NoReference EXCEPT !.has_reference = TRUE, !.reference_type = "generic",
                             !.referenced_flight = flights[1],
                             !.flight_number = flights[1].flight_number]
    ELSE NoReference

\* the first rule of the sequence that resolved something
RECURSIVE FirstResolved(_)
FirstResolved(results) ==
    IF results = <<>> THEN NoReference
    ELSE IF Head(results).has_reference THEN Head(results)
    ELSE FirstResolved(Tail(results))

\* resolve_reference without the empty-results guards: the generic rule
\* reports a reference although there is no flight to refer to
resolve_reference_unguarded(current_message, flights) ==
    LET message_lower == str_lower(current_message)
        generic == IF \E k \in 1..Len(generic_refs) : str_in(generic_refs[k], message_lower)
                   THEN [NoReference EXCEPT !.has_reference = TRUE,
                                            !.reference_type = "generic",
                                            !.referenced_flight =
                                                IF flights = <<>> THEN NoFlight ELSE flights[1]]
                   ELSE NoReference
    IN  FirstResolved(<< TimeRule(message_lower, flights),
                         OrdinalRule(message_lower, flights),
                         FlightNumberRule(str_upper(current_message), flights),
                         generic >>)

\* resolve_reference with the ordinal rule tried before the time rule
resolve_reference_ordinal_first(current_message, flights) ==
    LET message_lower == str_lower(current_message)
    IN  IF flights = <<>> THEN NoReference
        ELSE FirstResolved(<< OrdinalRule(message_lower, flights),
                              TimeRule(message_lower, flights),
                              FlightNumberRule(str_upper(current_message), flights),
                              GenericRule(message_lower, flights) >>)

resolve_reference(current_message, flights) ==
    LET message_lower == str_lower(current_message)
    IN  IF flights = <<>> THEN NoReference
        ELSE FirstResolved(<< TimeRule(message_lower, flights),
                              OrdinalRule(message_lower, flights),
                              FlightNumberRule(str_upper(current_message), flights),
                              GenericRule(message_lower, flights) >>)

(***************************************************************************)
(* flight_data/constants.py and flight_data/utils.py: flight parameters    *)
(***************************************************************************)
\* AIRPORTS after the ADDITIONAL_AIRPORTS update: code -> city
AIRPORTS ==
    ("DEL" :> "Delhi") @@ ("BOM" :> "Mumbai") @@ ("BLR" :> "Bangalore") @@
    ("MAA" :> "Chennai") @@ ("HYD" :> "Hyderabad") @@ ("CCU" :> "Kolkata") @@
    ("GOI" :> "Goa") @@ ("AMD" :> "Ahmedabad") @@ ("PNQ" :> "Pune") @@ ("JAI" :> "Jaipur")

INVALID_IATA_CODES ==
    {"THE", "AND", "FOR", "YOU", "CAN", "GET", "AIR", "IND", "ALL", "ANY",
     "ONE", "TWO", "SIX", "TEN", "FLY", "NOW", "DAY", "WEEK", "NEXT", "YES"}

\* the dict in insertion order, which is the order extract_city_names scans it
CITY_TO_IATA ==
    << <<"delhi", "DEL">>, <<"new delhi", "DEL">>, <<"mumbai", "BOM">>, <<"bombay", "BOM">>,
       <<"bangalore", "BLR">>, <<"bengaluru", "BLR">>, <<"chennai", "MAA">>,
       <<"madras", "MAA">>, <<"hyderabad", "HYD">>, <<"kolkata", "CCU">>,
       <<"calcutta", "CCU">>, <<"goa", "GOI">>, <<"ahmedabad", "AMD">>, <<"pune", "PNQ">>,
       <<"jaipur", "JAI">>, <<"lucknow", "LKO">>, <<"kochi", "COK">>, <<"guwahati", "GAU">>,
       <<"new york", "JFK">>, <<"london", "LHR">>, <<"dubai", "DXB">>,
       <<"singapore", "SIN">>, <<"tokyo", "NRT">>, <<"sydney", "SYD">>,
       <<"toronto", "YYZ">>, <<"paris", "CDG">>, <<"frankfurt", "FRA">>,
       <<"hong kong", "HKG">>, <<"bangkok", "BKK">> >>

is_valid_iata_code(code) ==
    /\ Len(code) = 3
    /\ \A i \in 1..Len(code) : Char(code, i) \in UpperChars
    /\ code \notin INVALID_IATA_CODES
    /\ code \in DOMAIN AIRPORTS

\* re.findall(r'\b[A-Z]{3}\b', s): the non-overlapping matches, left to right
RECURSIVE findall_three_letters(_, _)
findall_three_letters(s, p) ==
    IF p + 2 > Len(s) THEN <<>>
    ELSE IF /\ IsBoundary(s, p)
            /\ \A j \in p..(p + 2) : Char(s, j) \in UpperChars
            /\ IsBoundary(s, p + 3)
         THEN <<SubSeq(s, p, p + 2)>> \o findall_three_letters(s, p + 3)
         ELSE findall_three_letters(s, p + 1)

\* the first two three-letter words, whatever they are
extract_iata_codes_unfiltered(text) ==
    LET potential_codes == findall_three_letters(str_upper(text), 1)
    IN  IF Len(potential_codes) >= 2
        THEN <<potential_codes[1], potential_codes[2]>>
        ELSE <<None, None>>

extract_iata_codes(text) ==
    LET text_upper == str_upper(text)
        potential_codes == findall_three_letters(text_upper, 1)
        valid_codes == SelectSeq(potential_codes, is_valid_iata_code)
    IN  IF Len(valid_codes) >= 2
        THEN <<valid_codes[1], valid_codes[2]>>
        ELSE <<None, None>>

\* list.sort(key=lambda x: x[0]): ascending position, ties in list order
RECURSIVE sort_by_position(_)
sort_by_position(found) ==
    IF found = <<>> THEN <<>>
    ELSE LET lowest == Min({found[i][1] : i \in 1..Len(found)})
             k == Min({i \in 1..Len(found) : found[i][1] = lowest})
         IN  <<found[k]>> \o
             sort_by_position(SubSeq(found, 1, k - 1) \o SubSeq(found, k + 1, Len(found)))

extract_city_names(text) ==
    IF text = "" THEN <<None, None>>
    ELSE LET text_lower == str_lower(text)
             hits == SelectSeq(CITY_TO_IATA, LAMBDA entry : str_in(entry[1], text_lower))
             found_cities ==
                 sort_by_position([i \in 1..Len(hits) |->
                     <<str_find(text_lower, hits[i][1]), hits[i][1], hits[i][2]>>])
         IN  IF Len(found_cities) >= 2 THEN <<found_cities[1][3], found_cities[2][3]>>
             ELSE IF Len(found_cities) = 1 THEN <<found_cities[1][3], None>>
             ELSE <<None, None>>

\* r'(\d+)\s+(?:passenger|person|people|adult)'
passenger_pattern ==
    << Plus(DigitChars), Plus(SpaceChars), Alt({"passenger", "person", "people", "adult"}) >>

\* group(1) of the leftmost match: the digits from its start up to the
\* whitespace; "" when the pattern does not match
passenger_match(text_lower) ==
    LET start == re_search_start(passenger_pattern, text_lower)
    IN  IF start = 0 THEN ""
        ELSE SubSeq(text_lower, start, Max(RunFrom(text_lower, start, DigitChars)) - 1)

extract_flight_parameters(text) ==
    LET built(pair, text_lower, digits) ==
            LET both == pair[1] # None /\ pair[2] # None
                passengers == IF digits = "" THEN 0 ELSE str_int(digits)
            IN  [origin |-> IF both THEN pair[1] ELSE None,
                 destination |-> IF both THEN pair[2] ELSE None,
                 origin_city |->
                     IF both THEN DictGet(AIRPORTS, pair[1], pair[1]) ELSE None,
                 destination_city |->
                     IF both THEN DictGet(AIRPORTS, pair[2], pair[2]) ELSE None,
                 date |-> IF str_in("today", text_lower) THEN "today"
                          ELSE IF str_in("tomorrow", text_lower) THEN "tomorrow"
                          ELSE IF str_in("next week", text_lower) THEN "next_week"
                          ELSE "tomorrow",
                 passengers |-> IF digits # "" /\ 1 <= passengers /\ passengers <= 9
                                THEN passengers ELSE 1,
                 class |-> "economy"]
        \* the codes when both were found, else the cities when both were
        chosen(iata, cities) ==
            IF (iata[1] = None \/ iata[2] = None) /\ cities[1] # None /\ cities[2] # None
            THEN cities ELSE iata
        from_codes(iata) ==
            chosen(iata, IF iata[1] = None \/ iata[2] = None
                         THEN extract_city_names(text) ELSE <<None, None>>)
        lowered(text_lower) ==
            built(from_codes(extract_iata_codes(text)), text_lower,
                  passenger_match(text_lower))
    IN  lowered(str_lower(text))

(***************************************************************************)
(* core/intent_detector.py: IntentDetector                                 *)
(*                                                                         *)
(* The keyword lists carry their ASCII entries; the accented Spanish and   *)
(* the Devanagari entries cannot occur in the ASCII messages of the model. *)
(* The patterns are compiled with re.IGNORECASE: they are written in lower *)
(* case and searched in the lowered message.  A confidence is an integer   *)
(* number of thousandths.                                                  *)
(***************************************************************************)
FLIGHT_KEYWORDS ==
    {"flight", "flights", "fly", "flying", "airplane", "plane", "booking", "book",
     "reservation", "ticket", "fare", "departure", "arrival", "destination", "origin",
     "route", "schedule", "time", "availability", "price", "cost",
     "vuelo", "vuelos", "volar", "reservar", "reserva", "billete", "pasaje"}

POLICY_KEYWORDS ==
    {"baggage", "luggage", "allowance", "weight", "size", "dimension", "carry-on",
     "hand luggage", "checked baggage", "excess", "overweight", "checkin", "check-in",
     "boarding pass", "cancel", "cancellation", "refund", "policy", "policies", "rule",
     "rules", "regulation", "information",
     "equipaje", "maleta", "reembolso", "peso", "regla"}

GREETING_KEYWORDS ==
    {"hello", "hi", "hey", "hola", "buenos", "buenas", "namaste", "thanks", "thank you",
     "gracias", "goodbye", "bye"}

OptS == Alt({"s", ""})
Spaces == Plus(SpaceChars)
AWord == Plus(WordChars)

FLIGHT_PATTERNS ==
    << << Lit("flight"), OptS, Spaces, Alt({"from", "between"}), Spaces, AWord, Spaces,
          Alt({"to", "and"}), Spaces, AWord >>,
       << WordB, Alt({"find", "search", "show", "look for"}), Spaces, Lit("flight"), OptS,
          Spaces, AWord >>,
       << AWord, Spaces, Lit("to"), Spaces, AWord, Spaces, Lit("flight"), OptS >>,
       << Lit("flight"), OptS, Spaces, AWord, Spaces, AWord >> >>

\* the optional group (?:\s+is|\s+are)? of the second pattern is written
\* out as two patterns, without and with the group
POLICY_PATTERNS ==
    << << Lit("baggage"), Spaces, Alt({"allowance", "policy", "rule", "rules"}), Spaces,
          Alt({"for", "to", "in"}), Spaces, AWord >>,
       << Lit("what"), Spaces, Lit("the"), Spaces, AWord, Spaces,
          Alt({"allowance", "policy", "rule", "rules"}), Spaces, Lit("for"), Spaces, AWord >>,
       << Lit("what"), Spaces, Alt({"is", "are"}), Spaces, Lit("the"), Spaces, AWord, Spaces,
          Alt({"allowance", "policy", "rule", "rules"}), Spaces, Lit("for"), Spaces, AWord >>,
       << Lit("how"), Spaces, Lit("much"), Spaces, AWord, Spaces,
          Alt({"allowance", "can", "do"}), Spaces, Lit("i"), Spaces, AWord, Spaces,
          Lit("for"), Spaces, AWord >> >>

\* some pattern.search(message) of patterns compiled with re.IGNORECASE
any_pattern(patterns, message) ==
    LET lowered == str_lower(message)
    IN  \E i \in 1..Len(patterns) : re_search(patterns[i], lowered)

\* _count_keywords: the distinct keywords found as whole words, by
\* re.search(r'\b' + re.escape(keyword) + r'\b', text, re.IGNORECASE)
count_keywords(text, keywords) ==
    LET lowered == str_lower(text)
        boundaries == MatchEnds(<<WordB>>, lowered, 1..(Len(lowered) + 1))
    IN  Cardinality({keyword \in keywords :
                        MatchEnds(<<Lit(keyword), WordB>>, lowered, boundaries) # {}})

\* _extract_flight_parameters: the extracted dict plus the message itself
extract_flight_parameters_raw(message) ==
    extract_flight_parameters(message) @@ ("raw_message" :> message)

\* app.py constructs the detector with use_llm_fallback=False; the fallback
\* itself is not implemented and returns None
use_llm_fallback == FALSE
llm_intent_fallback(message) == NoObject

NoIntentResult ==
    [raised |-> FALSE, intent |-> None, confidence |-> -1, parameters |-> EmptyDict,
     raw_message |-> None, reason |-> None, success |-> FALSE]

\* round(confidence, 3) of a confidence given in hundredths, in thousandths
round_3(hundredths) == hundredths * 10

\* a response that reports the enum member itself, not its value
build_response_member(intent, confidence, parameters, reason) ==
    [raised |-> FALSE,
     intent |-> intent,
     confidence |-> round_3(confidence),
     parameters |-> parameters,
     raw_message |-> DictGet(parameters, "raw_message", ""),
     reason |-> reason,
     success |-> TRUE]

\* _build_response; intent.value raises AttributeError unless intent is a
\* member of IntentType
build_response(intent, confidence, parameters, reason) ==
    IF intent \notin IntentType THEN [NoIntentResult EXCEPT !.raised = TRUE]
    ELSE [raised |-> FALSE,
          intent |-> IntentValue(intent),
          confidence |-> round_3(confidence),
          parameters |-> parameters,
          raw_message |-> DictGet(parameters, "raw_message", ""),
          reason |-> reason,
          success |-> TRUE]

\* the keyword rules with the policy rule tried before the flight rule
detect_by_keywords_policy_first(message) ==
    LET scored(message_lower, flight_score, policy_score, greeting_score, params, codes) ==
            IF greeting_score >= 1 /\ flight_score = 0 /\ policy_score = 0
            THEN build_response(GENERAL_CHAT, 90, EmptyDict, "greeting")
            ELSE IF policy_score >= 2
            THEN build_response(POLICY_QUESTION, 80, EmptyDict, "policy_keywords")
            ELSE IF flight_score >= 2
            THEN IF params.origin # None /\ params.destination # None
                 THEN build_response(FLIGHT_SEARCH, 89, params, "flight_keywords_with_codes")
                 ELSE build_response(FLIGHT_SEARCH, 75, params, "flight_keywords_no_codes")
            ELSE IF (str_in("baggage", message_lower) \/ str_in("luggage", message_lower))
                    /\ flight_score = 0
            THEN build_response(POLICY_QUESTION, 85, EmptyDict, "baggage_only")
            ELSE IF codes[1] # None /\ codes[2] # None
            THEN build_response(FLIGHT_SEARCH, 70, params, "iata_codes_only")
            ELSE build_response(GENERAL_CHAT, 30, EmptyDict, "default")
    IN  scored(str_lower(message),
               count_keywords(str_lower(message), FLIGHT_KEYWORDS),
               count_keywords(str_lower(message), POLICY_KEYWORDS),
               count_keywords(str_lower(message), GREETING_KEYWORDS),
               extract_flight_parameters_raw(message),
               extract_iata_codes(message))

\* steps 3 to 6 of detect_intent: keywords, bare IATA codes, default
detect_by_keywords(message) ==
    LET scored(message_lower, flight_score, policy_score, greeting_score, params, codes) ==
            IF greeting_score >= 1 /\ flight_score = 0 /\ policy_score = 0
            THEN build_response(GENERAL_CHAT, 90, EmptyDict, "greeting")
            ELSE IF flight_score >= 2
            THEN IF params.origin # None /\ params.destination # None
                 THEN build_response(FLIGHT_SEARCH, 89, params, "flight_keywords_with_codes")
                 ELSE build_response(FLIGHT_SEARCH, 75, params, "flight_keywords_no_codes")
            ELSE IF policy_score >= 2
            THEN build_response(POLICY_QUESTION, 80, EmptyDict, "policy_keywords")
            ELSE IF (str_in("baggage", message_lower) \/ str_in("luggage", message_lower))
                    /\ flight_score = 0
            THEN build_response(POLICY_QUESTION, 85, EmptyDict, "baggage_only")
            ELSE IF codes[1] # None /\ codes[2] # None
            THEN build_response(FLIGHT_SEARCH, 70, params, "iata_codes_only")
            ELSE IF use_llm_fallback /\ llm_intent_fallback(message) # NoObject
            THEN llm_intent_fallback(message)[1]
            ELSE build_response(GENERAL_CHAT, 30, EmptyDict, "default")
    IN  scored(str_lower(message),
               count_keywords(str_lower(message), FLIGHT_KEYWORDS),
               count_keywords(str_lower(message), POLICY_KEYWORDS),
               count_keywords(str_lower(message), GREETING_KEYWORDS),
               extract_flight_parameters_raw(message),
               extract_iata_codes(message))

\* detect_intent of a detector whose context holds the given last intent
\* and cached results
detect_intent_attached(text, context_last_intent, context_flight_results) ==
    LET staged(message, reference, flight_parameters, by_keywords) ==
            IF any_pattern(FLIGHT_PATTERNS, message)
            THEN build_response(FLIGHT_SEARCH, 95, flight_parameters, "flight_pattern")
            ELSE IF any_pattern(POLICY_PATTERNS, message)
            THEN build_response(POLICY_QUESTION, 92, EmptyDict, "policy_pattern")
            ELSE IF context_last_intent = FLIGHT_SEARCH /\ reference.has_reference
            THEN build_response(FLIGHT_SEARCH, 88, reference, "context_reference")
            ELSE by_keywords
    IN  IF text = "" \/ str_strip(text) = ""
        THEN build_response(GENERAL_CHAT, 10, EmptyDict, "empty_message")
        ELSE staged(str_strip(text),
                    resolve_reference(str_strip(text), context_flight_results),
                    extract_flight_parameters_raw(str_strip(text)),
                    detect_by_keywords(str_strip(text)))

\* detect_intent with the context stage moved behind the keyword rules
detect_intent_carry_over_last(text) ==
    LET staged(message, reference, flight_parameters, by_keywords) ==
            IF any_pattern(FLIGHT_PATTERNS, message)
            THEN build_response(FLIGHT_SEARCH, 95, flight_parameters, "flight_pattern")
            ELSE IF any_pattern(POLICY_PATTERNS, message)
            THEN build_response(POLICY_QUESTION, 92, EmptyDict, "policy_pattern")
            ELSE IF by_keywords.reason # "default" THEN by_keywords
            ELSE IF last_intent = FLIGHT_SEARCH /\ reference.has_reference
            THEN build_response(FLIGHT_SEARCH, 88, reference, "context_reference")
            ELSE by_keywords
    IN  IF text = "" \/ str_strip(text) = ""
        THEN build_response(GENERAL_CHAT, 10, EmptyDict, "empty_message")
        ELSE staged(str_strip(text),
                    resolve_reference(str_strip(text), last_flight_results),
                    extract_flight_parameters_raw(str_strip(text)),
                    detect_by_keywords(str_strip(text)))

\* detect_intent of a detector attached to the context (app.py)
detect_intent(text) == detect_intent_attached(text, last_intent, last_flight_results)

(***************************************************************************)
(* rag/rag_handler.py: SimpleRAGHandler.search and its filters             *)
(***************************************************************************)
k_results == 5
search_k == 10

\* country_patterns in insertion order; every pattern is \b<text>\b
country_patterns ==
    << <<"canada", <<"canada", "canadian">> >>,
       <<"usa", <<"usa", "us", "united states", "america", "u.s.", "u.s.a.">> >>,
       <<"india", <<"india", "indian", "domestic">> >>,
       <<"sri lanka", <<"sri lanka", "sri lankan">> >>,
       <<"bangladesh", <<"bangladesh">> >>,
       <<"nepal", <<"nepal">> >>,
       <<"maldives", <<"maldives">> >>,
       <<"australia", <<"australia">> >>,
       <<"europe", <<"europe", "european", "uk", "france", "germany">> >>,
       <<"japan", <<"japan">> >>,
       <<"south korea", <<"south korea", "korea">> >> >>

\* _extract_country_from_query: the first country with a matching pattern
extract_country_from_query(query) ==
    LET query_lower == str_lower(query)
        boundaries == MatchEnds(<<WordB>>, query_lower, 1..(Len(query_lower) + 1))
        \* re.search(r"\b<text>\b", query_lower, re.IGNORECASE), <text> in lower case
        hit(i) == \E j \in 1..Len(country_patterns[i][2]) :
                     MatchEnds(<<Lit(country_patterns[i][2][j]), WordB>>, query_lower,
                               boundaries) # {}
        hits == {i \in 1..Len(country_patterns) : hit(i)}
    IN  IF hits = {} THEN None ELSE country_patterns[Min(hits)][1]

\* a stored chunk: the metadata the handler reads.  chunk_id identifies
\* the chunk; countries_mentioned is "" when the key is missing.
Document(chunk_id, content_type, countries_mentioned) ==
    [chunk_id |-> chunk_id, content_type |-> content_type,
     countries_mentioned |-> countries_mentioned]

\* country.split()[0] if ' ' in country else country
first_word(country) ==
    IF str_in(" ", country) THEN SubSeq(country, 1, str_find(country, " ")) ELSE country

\* the tier _filter_by_country puts a document in
country_tier(doc, country) ==
    LET countries_mentioned == str_lower(doc.countries_mentioned)
    IN  IF countries_mentioned = "" \/ countries_mentioned = "none" THEN "no_match"
        ELSE IF str_in(country, countries_mentioned) THEN "exact"
        ELSE IF str_in(first_word(country), countries_mentioned) THEN "partial"
        ELSE "no_match"

\* the candidates handed back as they came
filter_by_country_untiered(documents, country) == documents

\* _filter_by_country
filter_by_country(documents, country) ==
    IF documents = <<>> THEN <<>>
    ELSE SelectSeq(documents, LAMBDA doc : country_tier(doc, country) = "exact") \o
         SelectSeq(documents, LAMBDA doc : country_tier(doc, country) = "partial") \o
         SelectSeq(documents, LAMBDA doc : country_tier(doc, country) = "no_match")

\* the candidates of the content type, or none at all
filter_by_content_type_strict(documents, content_type) ==
    IF content_type = None \/ content_type = "" \/ documents = <<>> THEN documents
    ELSE SelectSeq(documents, LAMBDA doc :
            str_lower(doc.content_type) = str_lower(content_type))

\* _filter_by_content_type
filter_by_content_type(documents, content_type) ==
    IF content_type = None \/ content_type = "" \/ documents = <<>> THEN documents
    ELSE LET filtered == SelectSeq(documents, LAMBDA doc :
                            str_lower(doc.content_type) = str_lower(content_type))
         IN  IF filtered # <<>> THEN filtered ELSE documents

\* lst[:k] of Python for any integer k
SliceTo(lst, k) ==
    IF k >= 0 THEN SubSeq(lst, 1, Min({k, Len(lst)}))
    ELSE SubSeq(lst, 1, Max({Len(lst) + k, 0}))

\* self.db.similarity_search(query, k): the k best of the ranking
similarity_search(k) == SliceTo(db_docs, k)

\* the dictionary search returns, with two observations of the call next to
\* it: raised (an exception left search) and db_calls (the number of
\* similarity_search calls it made)
NoSearchResult ==
    [success |-> FALSE, error |-> None, found |-> FALSE, documents |-> <<>>, count |-> -1,
     query |-> None, country_filter |-> None, content_type_filter |-> None,
     raised |-> FALSE, db_calls |-> 0]

\* the documents of a result: id is the position in the answer
formatted_docs(final_documents) ==
    [i \in 1..Len(final_documents) |->
        [id |-> i,
         metadata |-> final_documents[i],
         type |-> final_documents[i].content_type,
         countries |-> IF final_documents[i].countries_mentioned = ""
                       THEN "none" ELSE final_documents[i].countries_mentioned]]

\* the body of the try block of search, reached with the handler initialized
search_try(query, k, filter_by_type) ==
    LET country == extract_country_from_query(query)
        k_used == IF k = NoObject \/ k[1] = 0 THEN k_results ELSE k[1]
        all_documents == similarity_search(search_k)
        by_country == IF country # None
                      THEN filter_by_country(all_documents, country)
                      ELSE all_documents
        filtered_documents == filter_by_content_type(by_country, filter_by_type)
        final_documents == SliceTo(filtered_documents, k_used)
    IN  IF all_documents = <<>>
        THEN [NoSearchResult EXCEPT !.success = TRUE, !.count = 0, !.query = query,
                                    !.country_filter = country, !.db_calls = 1]
        ELSE [success |-> TRUE, error |-> None, found |-> TRUE,
              documents |-> formatted_docs(final_documents),
              count |-> Len(final_documents),
              query |-> query, country_filter |-> country,
              content_type_filter |-> filter_by_type,
              raised |-> FALSE, db_calls |-> 1]

\* search without its except clause: the store's exception leaves it
search_propagating(query, k, filter_by_type, raises) ==
    IF ~is_initialized
    THEN [NoSearchResult EXCEPT !.error = "RAG not initialized", !.count = 0]
    ELSE IF raises
    THEN [NoSearchResult EXCEPT !.raised = TRUE, !.db_calls = 1]
    ELSE search_try(query, k, filter_by_type)

\* search(query, k, filter_by_type); k is NoObject for None, <<n>> for n;
\* raises says whether the vector store throws
search(query, k, filter_by_type, raises) ==
    IF ~is_initialized
    THEN [NoSearchResult EXCEPT !.error = "RAG not initialized", !.count = 0]
    ELSE IF raises
    THEN [NoSearchResult EXCEPT !.error = "similarity_search failed", !.count = 0,
                                !.db_calls = 1]
    ELSE search_try(query, k, filter_by_type)

(***************************************************************************)
(* rag/rag_handler.py: SimpleRAGHandler.get_context.  The pictographs that *)
(* open the lines of the context are left out of the literals.             *)
(***************************************************************************)
\* Document.page_content of the stored chunks: chunks 1 and 4 hold the same
\* passage, as two policy files that state the same rule do
page_content(doc) ==
    CASE doc.chunk_id \in {1, 4} -> "Economy: 1 checked bag up to 23 kg"
      [] doc.chunk_id = 2 -> "Q: How many bags? A: One."
      [] OTHER -> "Check-in closes 60 minutes before departure"

\* metadata['filename'] of the stored chunks
filename(doc) ==
    CASE doc.chunk_id = 1 -> "baggage_policy.txt"
      [] doc.chunk_id = 2 -> "faq.txt"
      [] doc.chunk_id = 4 -> "baggage_international.txt"
      [] OTHER -> "general.txt"

\* "content" of a formatted document: page_content[:500] + "..." when the
\* passage is longer than 500 characters
doc_content(doc) ==
    IF Len(page_content(doc)) > 500
    THEN SubSeq(page_content(doc), 1, 500) \o "..."
    ELSE page_content(doc)

\* str.title(): a letter after a non-letter in upper case, the others lower
RECURSIVE str_title_from(_, _)
str_title_from(s, after_letter) ==
    IF Len(s) = 0 THEN ""
    ELSE (IF after_letter THEN LowerChar(Char(s, 1)) ELSE UpperChar(Char(s, 1))) \o
         str_title_from(SubSeq(s, 2, Len(s)), Char(s, 1) \in LowerChars \cup UpperChars)
str_title(s) == str_title_from(s, FALSE)

\* sep.join(parts)
RECURSIVE str_join(_, _)
str_join(sep, parts) ==
    IF Len(parts) = 0 THEN ""
    ELSE IF Len(parts) = 1 THEN parts[1]
    ELSE parts[1] \o sep \o str_join(sep, SubSeq(parts, 2, Len(parts)))

\* lines 314-322: the content type the query asks for
context_content_type(query_lower) ==
    IF \E x \in {"frequently asked", "faq", "question"} : str_in(x, query_lower)
    THEN "faq"
    ELSE IF \E x \in {"table", "economy class", "business class"} : str_in(x, query_lower)
    THEN "baggage_table"
    ELSE IF str_in("flight status", query_lower) THEN "general"
    ELSE None

\* lines 339-348: the lines of the documents from the i-th on
RECURSIVE document_parts(_, _)
document_parts(documents, i) ==
    IF i > Len(documents) THEN <<>>
    ELSE << "**Source: " \o filename(documents[i].metadata) \o "**" >> \o
         (IF documents[i].countries # "" /\ documents[i].countries # "none"
          THEN << "**Countries: " \o documents[i].countries \o "**" >>
          ELSE <<>>) \o
         << doc_content(documents[i].metadata), "---" >> \o
         document_parts(documents, i + 1)

\* lines 326-358: the context built from a search result
context_of(search_result) ==
    IF ~search_result.success \/ ~search_result.found
    THEN "No specific information found in Air India policies."
    ELSE str_join("\n",
            << "**AIR INDIA INFORMATION (from official policies):**\n" >> \o
            (IF search_result.country_filter # None
             THEN << "**Filtered for: " \o str_title(search_result.country_filter) \o "**\n" >>
             ELSE <<>>) \o
            (IF search_result.content_type_filter # None
             THEN << "**Content type: " \o search_result.content_type_filter \o "**\n" >>
             ELSE <<>>) \o
            document_parts(search_result.documents, 1) \o
            << "\n**INSTRUCTIONS FOR THE ASSISTANT:**",
               "1. Use this information to answer the question",
               "2. Be precise and concise",
               "3. If information is insufficient, state it clearly",
               "4. Respond in the SAME LANGUAGE as the user question",
               "5. If the query is in Hindi, respond in Hindi" >>)

\* get_context(query): search with the default k and the content type of
\* the query, then the context of its result
get_context(query, raises) ==
    context_of(search(query, NoObject, context_content_type(str_lower(query)), raises))

(***************************************************************************)
(* flight_data/mock_flights.py: MockFlightDatabase.search_flights          *)
(***************************************************************************)
MOCK_AIRPORTS == {"DEL", "BOM", "BLR", "MAA", "HYD", "CCU", "AMD", "GOI", "JAI", "LKO"}

\* the keys of a search result that the engine reads
FlightData(success, flights) == [success |-> success, flights |-> flights]

\* generated is what generate_flights_for_route draws for the route
search_flights(origin, destination, generated) ==
    IF str_strip(str_upper(origin)) \notin MOCK_AIRPORTS THEN FlightData(FALSE, <<>>)
    ELSE IF str_strip(str_upper(destination)) \notin MOCK_AIRPORTS
    THEN FlightData(FALSE, <<>>)
    ELSE FlightData(TRUE, generated)

(***************************************************************************)
(* core/chatbot_engine.py: ChatbotEngine.process_query                     *)
(*                                                                         *)
(* A turn is computed as a record: the response, the collaborator calls    *)
(* in the order they were made, and what the turn wrote to the context.    *)
(* fault names the collaborator call that raises in this turn, "none" when *)
(* none does; a context manager that raises leaves the context as it was.  *)
(***************************************************************************)
Faults ==
    {"none", "resolve_reference", "detect_intent", "add_message", "search_flights",
     "get_answer", "update_flight_results"}

\* str(n) for n >= 0
RECURSIVE str_of_int(_)
str_of_int(n) ==
    IF n < 10 THEN SubSeq("0123456789", n + 1, n + 1)
    ELSE str_of_int(n \div 10) \o SubSeq("0123456789", (n % 10) + 1, (n % 10) + 1)

\* the detector the engine constructs, IntentDetector(): self.context is
\* None, so the context stage of detect_intent is skipped
detect_intent_without_context(text) ==
    LET staged(message, flight_parameters, by_keywords) ==
            IF any_pattern(FLIGHT_PATTERNS, message)
            THEN build_response(FLIGHT_SEARCH, 95, flight_parameters, "flight_pattern")
            ELSE IF any_pattern(POLICY_PATTERNS, message)
            THEN build_response(POLICY_QUESTION, 92, EmptyDict, "policy_pattern")
            ELSE by_keywords
    IN  IF text = "" \/ str_strip(text) = ""
        THEN build_response(GENERAL_CHAT, 10, EmptyDict, "empty_message")
        ELSE staged(str_strip(text), extract_flight_parameters_raw(str_strip(text)),
                    detect_by_keywords(str_strip(text)))

\* the queries of a turn: a search the database answers, one it rejects
\* (PNQ is no airport of the mock database), a request without a route, a
\* follow-up, a policy question, a greeting, and nothing
EngineQueries ==
    {"flights from delhi to mumbai", "flights from pune to delhi", "book a ticket",
     "the first", "baggage allowance for canada", "hello", ""}
\* generate_flights_for_route: three flights in departure order
GeneratedFlights == {SubSeq(FlightCatalog, 1, 3), SubSeq(FlightCatalog, 3, 5)}
\* detect_intent_without_context of the queries of a turn, computed once
DetectionOf == [q \in EngineQueries |-> detect_intent_without_context(q)]
\* resolve_reference of those queries against the cached results a turn
\* can find, computed once
ReferenceOf ==
    [q \in EngineQueries, flights \in {<<>>} \cup GeneratedFlights |->
        resolve_reference(q, flights)]

\* _detect_intent: the detector's result, or the canned one when it raises
engine_detect_intent(user_query, fault) ==
    IF fault = "detect_intent"
    THEN [NoIntentResult EXCEPT !.intent = "general_chat", !.confidence = 100]
    ELSE IF user_query \in DOMAIN DetectionOf THEN DetectionOf[user_query]
    ELSE detect_intent_without_context(user_query)

\* the keys of an action result; a key that is absent holds None
NoActionResult ==
    [type |-> None, message |-> None, suggestion |-> None, details |-> None,
     data |-> FlightData(FALSE, <<>>), answer |-> None, source |-> None,
     flight |-> NoFlight, reference_type |-> None]

\* bool(s) for Optional[str]
Truthy(s) == s # None /\ s # ""

\* _handle_flight_search that searches whatever the parameters are
handle_flight_search_unguarded(parameters, fault, generated) ==
    LET origin == DictGet(parameters, "origin", None)
        destination == DictGet(parameters, "destination", None)
    IN  IF fault = "search_flights" \/ origin = None \/ destination = None
        THEN [result |-> [NoActionResult EXCEPT !.type = "error",
                                                !.message = "Error searching flights",
                                                !.details = "search_flights failed"],
              calls |-> <<"search_flights">>]
        ELSE [result |-> [NoActionResult EXCEPT
                             !.type = "flight_results",
                             !.data = search_flights(origin, destination, generated)],
              calls |-> <<"search_flights">>]

\* _handle_flight_search
handle_flight_search(parameters, fault, generated) ==
    LET origin == DictGet(parameters, "origin", None)
        destination == DictGet(parameters, "destination", None)
    IN  IF ~Truthy(origin) \/ ~Truthy(destination)
        THEN [result |-> [NoActionResult EXCEPT
                             !.type = "error",
                             !.message = "Missing origin or destination",
                             !.suggestion = "Please specify both cities (e.g., 'DEL to BOM')"],
              calls |-> <<>>]
        ELSE IF fault = "search_flights"
        THEN [result |-> [NoActionResult EXCEPT !.type = "error",
                                                !.message = "Error searching flights",
                                                !.details = "search_flights failed"],
              calls |-> <<"search_flights">>]
        ELSE [result |-> [NoActionResult EXCEPT
                             !.type = "flight_results",
                             !.data = search_flights(origin, destination, generated)],
              calls |-> <<"search_flights">>]

\* _handle_policy_query; llm_answer is what get_answer returns
handle_policy_query(fault, llm_answer) ==
    IF ~is_initialized
    THEN [result |-> [NoActionResult EXCEPT
                         !.type = "policy_answer",
                         !.answer = "I couldn't access detailed policies right now.",
                         !.source = "fallback"],
          calls |-> <<>>]
    ELSE IF fault = "get_answer"
    THEN [result |-> [NoActionResult EXCEPT
                         !.type = "policy_answer",
                         !.answer = "Sorry, policy information is temporarily unavailable. Please try again.",
                         !.source = "error"],
          calls |-> <<"get_answer">>]
    ELSE [result |-> [NoActionResult EXCEPT !.type = "policy_answer",
                                            !.answer = llm_answer,
                                            !.source = "rag_system"],
          calls |-> <<"get_answer">>]

\* _handle_general_chat
handle_general_chat == [result |-> [NoActionResult EXCEPT !.type = "general_chat"],
                        calls |-> <<>>]

\* _execute_action
execute_action(intent, parameters, fault, generated, llm_answer) ==
    IF intent = "flight_search" THEN handle_flight_search(parameters, fault, generated)
    ELSE IF intent = "policy_question" THEN handle_policy_query(fault, llm_answer)
    ELSE handle_general_chat

\* _format_response
format_response(intent, action_result) ==
    IF intent = "flight_search"
    THEN IF action_result.type = "flight_results" /\ action_result.data.success
         THEN IF action_result.data.flights # <<>>
              THEN "Found " \o str_of_int(Len(action_result.data.flights)) \o
                   " flights for your search."
              ELSE "No flights found for that route."
         ELSE "Could not search flights at this time."
    ELSE IF intent = "policy_question"
    THEN IF Truthy(action_result.answer)
         THEN IF Len(action_result.answer) > 500
              THEN SubSeq(action_result.answer, 1, 500) \o "..."
              ELSE action_result.answer
         ELSE "Consulting Air India policies..."
    ELSE "How can I help you with Air India today?"

\* _get_response_source
get_response_source(intent, action_result) ==
    IF intent = "flight_search" THEN "flight_database"
    ELSE IF intent = "policy_question"
    THEN IF action_result.source # None THEN action_result.source ELSE "rag_system"
    ELSE "general_chat"

\* core.chatbot_engine.ChatbotResponse; confidence in thousandths
ChatbotResponse(raw_response, intent, confidence, raw_data, source) ==
    [raised |-> FALSE, raw_response |-> raw_response, intent |-> intent,
     confidence |-> confidence, raw_data |-> raw_data, source |-> source]

NoResponse == ChatbotResponse(None, None, -1, NoActionResult, None)

\* an exception that leaves process_query
RaisedResponse == [NoResponse EXCEPT !.raised = TRUE]

\* _build_empty_response
build_empty_response ==
    ChatbotResponse("Please enter your question about Air India.", "general_chat", 0,
                    NoActionResult, None)

\* _build_error_response
build_error_response(user_query) ==
    ChatbotResponse("An error occurred processing your query: '" \o user_query \o
                    "'. Please try again.", "error", 0, NoActionResult, None)

\* _format_flight_details: the heading and the departure line of the text
format_flight_details(flight) ==
    "Flight " \o (IF flight.flight_number # None THEN flight.flight_number ELSE "N/A") \o
    " Details: Departure: " \o
    (IF flight.departure_time # None THEN flight.departure_time ELSE "N/A")

\* _handle_context_reference
handle_context_reference(reference, user_query) ==
    IF reference.reference_type \in {"time", "ordinal", "flight_number", "generic"}
       /\ reference.referenced_flight # NoFlight
    THEN ChatbotResponse(format_flight_details(reference.referenced_flight),
                         "flight_details", 900,
                         [NoActionResult EXCEPT !.flight = reference.referenced_flight,
                                                !.reference_type = reference.reference_type],
                         "flight_database")
    ELSE build_error_response(user_query)

\* what a turn hands back: the response, the calls made, the writes
Turn(response, calls, message, flights) ==
    [response |-> response, calls |-> calls, message |-> message, flights |-> flights,
     detected |-> NoIntentResult]

\* lines 162-205: the turn once the intent is detected and the action done
process_acted(user_query, context_manager, fault, before, intent_result, action) ==
    LET intent == intent_result.intent
        action_result == action.result
        added_calls == IF context_manager THEN <<"add_message">> ELSE <<>>
        message == IF context_manager /\ fault # "add_message"
                   THEN Some(Message("user", user_query, intent,
                                     Some(intent_result.parameters)))
                   ELSE NoObject
        response == ChatbotResponse(format_response(intent, action_result), intent,
                                    intent_result.confidence, action_result,
                                    get_response_source(intent, action_result))
        updates == /\ context_manager
                   /\ intent = "flight_search"
                   /\ action_result.type = "flight_results"
                   /\ action_result.data.flights # <<>>
        calls == before \o <<"detect_intent">> \o added_calls
    IN  IF context_manager /\ fault = "add_message"
        THEN Turn(build_error_response(user_query), calls, NoObject, NoObject)
        ELSE IF updates /\ fault = "update_flight_results"
        THEN Turn(build_error_response(user_query),
                  calls \o action.calls \o <<"update_flight_results">>, message, NoObject)
        ELSE IF updates
        THEN Turn(response, calls \o action.calls \o <<"update_flight_results">>,
                  message, Some(action_result.data.flights))
        ELSE Turn(response, calls \o action.calls, message, NoObject)

\* lines 159-205: the turn once the intent is detected
process_executed(user_query, context_manager, fault, generated, llm_answer, before, intent_result) ==
    [process_acted(user_query, context_manager, fault, before, intent_result,
                   execute_action(intent_result.intent, intent_result.parameters, fault,
                                  generated, llm_answer))
        EXCEPT !.detected = intent_result]

\* lines 155-209, from intent detection on; before is the calls made so far
process_detected(user_query, context_manager, fault, generated, llm_answer, before) ==
    process_executed(user_query, context_manager, fault, generated, llm_answer, before,
                     engine_detect_intent(user_query, fault))

\* process_query that consults the context outside its try block
process_query_propagating(user_query, context_manager, fault, generated, llm_answer) ==
    IF user_query = "" \/ str_strip(user_query) = ""
    THEN Turn(build_empty_response, <<>>, NoObject, NoObject)
    ELSE IF context_manager /\ fault = "resolve_reference"
    THEN Turn(RaisedResponse, <<"resolve_reference">>, NoObject, NoObject)
    ELSE process_detected(str_strip(user_query), context_manager, fault, generated,
                          llm_answer,
                          IF context_manager THEN <<"resolve_reference">> ELSE <<>>)

\* context_manager.resolve_reference(user_query) on the context of the model
context_resolve_reference(query) ==
    IF <<query, last_flight_results>> \in DOMAIN ReferenceOf
    THEN ReferenceOf[query, last_flight_results]
    ELSE resolve_reference(query, last_flight_results)

\* lines 146-209: the turn of a non-empty query, given what the context
\* resolves it to
process_resolved(query, context_manager, fault, generated, llm_answer, reference) ==
    IF context_manager /\ fault = "resolve_reference"
    THEN Turn(build_error_response(query), <<"resolve_reference">>, NoObject, NoObject)
    ELSE IF context_manager /\ reference.has_reference
    THEN Turn(handle_context_reference(reference, query), <<"resolve_reference">>,
              NoObject, NoObject)
    ELSE process_detected(query, context_manager, fault, generated, llm_answer,
                          IF context_manager THEN <<"resolve_reference">> ELSE <<>>)

\* process_query(user_query, conversation_history, context_manager);
\* context_manager says whether the context is supplied
process_query(user_query, context_manager, fault, generated, llm_answer) ==
    IF user_query = "" \/ str_strip(user_query) = ""
    THEN Turn(build_empty_response, <<>>, NoObject, NoObject)
    ELSE process_resolved(str_strip(user_query), context_manager, fault, generated,
                          llm_answer, context_resolve_reference(str_strip(user_query)))

(***************************************************************************)
(* Return values.  ret.call names the last call; the field of that call    *)
(* holds what it returned, the other fields hold "nothing returned".       *)
(***************************************************************************)
session_id == "default"
NoSummary ==
    [raised |-> FALSE, session_id |-> None, message_count |-> -1, last_intent |-> None,
     has_flight_search |-> FALSE, flight_results_count |-> -1]
NoParams ==
    [origin |-> None, destination |-> None, origin_city |-> None,
     destination_city |-> None, date |-> None, passengers |-> 0, class |-> None]
\* the arguments of the last search call
NoArgs == [k |-> NoObject, filter_by_type |-> None, raises |-> FALSE]
\* the turn of the last process_query call and the arguments it was given
NoTurn ==
    [response |-> NoResponse, calls |-> <<>>, message |-> NoObject, flights |-> NoObject,
     detected |-> NoIntentResult, user_query |-> None, context_manager |-> FALSE, fault |-> "none"]
NoReturn ==
    [call |-> "__init__", resolved |-> NoReference, summary |-> NoSummary,
     params |-> NoParams, detected |-> NoIntentResult, found |-> NoSearchResult,
     args |-> NoArgs, turn |-> NoTurn, session |-> None, text |-> None, path |-> None,
     appended |-> <<>>, direct |-> NoObject]
Return(call) == [NoReturn EXCEPT !.call = call]

(***************************************************************************)
(* ConversationContext                                                     *)
(***************************************************************************)
\* lst[-n:] of Python for n >= 0: the last n elements, and the whole list
\* for n = 0 because -0 is 0
LastSlice(lst, n) ==
    IF n = 0 \/ n >= Len(lst) THEN lst ELSE SubSeq(lst, Len(lst) - n + 1, Len(lst))

\* bool(parameters) for Optional[Dict]
ParamsTruthy(parameters) == parameters # NoObject /\ DictTruthy(parameters[1])

\* no retrieval handler in play
NoRag == is_initialized = FALSE /\ db_docs = <<>>

\* the browser sessions of the Streamlit server
Sessions == {"A", "B"}
\* no script run yet: nothing cached, no session holds a context
NoApp ==
    /\ resource_cache = NoObject
    /\ session_state = [s \in Sessions |-> NoObject]
    /\ turns = [s \in Sessions |-> 0]

\* __init__: the state of a fresh context
FreshContext(n) ==
    /\ max_history = n
    /\ history = <<>>
    /\ current_flight_search = NoObject
    /\ last_intent = None
    /\ last_parameters = NoObject
    /\ last_flight_results = <<>>

\* append keeping the first max_history messages instead of the last
history_after_append_keep_oldest(old_history, message, n) ==
    LET appended == Append(old_history, message)
    IN  IF Len(appended) > n THEN SubSeq(appended, 1, n) ELSE appended

\* lines 94-98: append, then keep history within limits
history_after_append(old_history, message, n) ==
    LET appended == Append(old_history, message)
    IN  IF Len(appended) > n THEN LastSlice(appended, n) ELSE appended

\* add_message staging a search for any intent that comes with parameters
AddMessage_staging_any_intent(role, content, intent, parameters) ==
    /\ budget > 0
    /\ LET message == Message(role, content, intent, parameters)
       IN  /\ history' = history_after_append(history, message, max_history)
           /\ added' = Append(added, message)
    /\ IF intent # None
       THEN /\ last_intent' = intent
            /\ last_parameters' = parameters
            /\ current_flight_search' =
                  IF ParamsTruthy(parameters)
                  THEN Some([search_params |-> parameters[1], results |-> <<>>])
                  ELSE current_flight_search
       ELSE UNCHANGED <<last_intent, last_parameters, current_flight_search>>
    /\ budget' = budget - 1
    /\ ret' = Return("add_message")
    /\ UNCHANGED <<max_history, last_flight_results, user_message, rag, app>>

AddMessage(role, content, intent, parameters) ==
    /\ budget > 0
    /\ LET message == Message(role, content, intent, parameters)
       IN  /\ history' = history_after_append(history, message, max_history)
           /\ added' = Append(added, message)
    /\ IF intent # None
       THEN /\ last_intent' = intent
            /\ last_parameters' = parameters
            /\ current_flight_search' =
                  IF intent = FLIGHT_SEARCH /\ ParamsTruthy(parameters)
                  THEN Some([search_params |-> parameters[1], results |-> <<>>])
                  ELSE current_flight_search
       ELSE UNCHANGED <<last_intent, last_parameters, current_flight_search>>
    /\ budget' = budget - 1
    /\ ret' = Return("add_message")
    /\ UNCHANGED <<max_history, last_flight_results, user_message, rag, app>>

\* update_flight_results extending the cached list instead of replacing it
UpdateFlightResults_merging(flight_results) ==
    /\ last_flight_results' = last_flight_results \o flight_results
    /\ current_flight_search' =
          IF current_flight_search # NoObject
          THEN Some([current_flight_search[1] EXCEPT !.results = flight_results])
          ELSE current_flight_search
    /\ ret' = Return("update_flight_results")
    /\ UNCHANGED <<max_history, history, last_intent, last_parameters, added, budget,
                   user_message, rag, app>>

UpdateFlightResults(flight_results) ==
    /\ last_flight_results' = flight_results
    /\ current_flight_search' =
          IF current_flight_search # NoObject
          THEN Some([current_flight_search[1] EXCEPT !.results = flight_results])
          ELSE current_flight_search
    /\ ret' = Return("update_flight_results")
    /\ UNCHANGED <<max_history, history, last_intent, last_parameters, added, budget,
                   user_message, rag, app>>

ResolveReference ==
    /\ ret' = [Return("resolve_reference") EXCEPT
                  !.resolved = resolve_reference(user_message, last_flight_results)]
    /\ UNCHANGED <<ctx, added, budget, user_message, rag, app>>

\* last_intent.value raises AttributeError when last_intent is a plain str
get_conversation_summary ==
    IF last_intent # None /\ last_intent \notin IntentType
    THEN [NoSummary EXCEPT !.raised = TRUE]
    ELSE [raised |-> FALSE,
          session_id |-> session_id,
          message_count |-> Len(history),
          last_intent |-> IF last_intent # None THEN IntentValue(last_intent) ELSE None,
          has_flight_search |-> current_flight_search # NoObject,
          flight_results_count |-> Len(last_flight_results)]

\* a summary that consumes the staged search while reporting it
GetConversationSummary_consuming ==
    /\ ret' = [Return("get_conversation_summary") EXCEPT !.summary = get_conversation_summary]
    /\ current_flight_search' = NoObject
    /\ UNCHANGED <<max_history, history, last_intent, last_parameters, last_flight_results,
                   added, budget, user_message, rag, app>>

GetConversationSummary ==
    /\ ret' = [Return("get_conversation_summary") EXCEPT !.summary = get_conversation_summary]
    /\ UNCHANGED <<ctx, added, budget, user_message, rag, app>>

\* clear() that forgets the conversation but keeps the cached flights
Clear_keeping_results ==
    /\ history' = <<>>
    /\ current_flight_search' = NoObject
    /\ last_intent' = None
    /\ last_parameters' = NoObject
    /\ last_flight_results' = last_flight_results
    /\ added' = <<>>
    /\ ret' = Return("clear")
    /\ UNCHANGED <<max_history, budget, user_message, rag, app>>

Clear ==
    /\ history' = <<>>
    /\ current_flight_search' = NoObject
    /\ last_intent' = None
    /\ last_parameters' = NoObject
    /\ last_flight_results' = <<>>
    /\ added' = <<>>
    /\ ret' = Return("clear")
    /\ UNCHANGED <<max_history, budget, user_message, rag, app>>

ExtractFlightParameters ==
    /\ ret' = [Return("extract_flight_parameters") EXCEPT
                  !.params = extract_flight_parameters(user_message)]
    /\ UNCHANGED <<ctx, added, budget, user_message, rag, app>>

DetectIntent ==
    /\ ret' = [Return("detect_intent") EXCEPT !.detected = detect_intent(user_message)]
    /\ UNCHANGED <<ctx, added, budget, user_message, rag, app>>

Search(k, filter_by_type, raises) ==
    /\ ret' = [Return("search") EXCEPT
                  !.found = search(user_message, k, filter_by_type, raises),
                  !.args = [k |-> k, filter_by_type |-> filter_by_type, raises |-> raises]]
    /\ UNCHANGED <<ctx, added, budget, user_message, rag, app>>

GetContext(raises) ==
    /\ ret' = [Return("get_context") EXCEPT
                  !.text = get_context(user_message, raises),
                  !.args = [NoArgs EXCEPT !.raises = raises]]
    /\ UNCHANGED <<ctx, added, budget, user_message, rag, app>>

\* the context as one value, and the methods as functions of it
TheContext ==
    [history |-> history, current_flight_search |-> current_flight_search,
     last_intent |-> last_intent, last_parameters |-> last_parameters,
     last_flight_results |-> last_flight_results]

add_message(c, role, content, intent, parameters) ==
    LET message == Message(role, content, intent, parameters)
        appended == [c EXCEPT !.history = history_after_append(c.history, message,
                                                               max_history)]
    IN  IF intent # None
        THEN [appended EXCEPT
                 !.last_intent = intent,
                 !.last_parameters = parameters,
                 !.current_flight_search =
                     IF intent = FLIGHT_SEARCH /\ ParamsTruthy(parameters)
                     THEN Some([search_params |-> parameters[1], results |-> <<>>])
                     ELSE c.current_flight_search]
        ELSE appended

update_flight_results(c, flight_results) ==
    [c EXCEPT !.last_flight_results = flight_results,
              !.current_flight_search =
                  IF c.current_flight_search # NoObject
                  THEN Some([c.current_flight_search[1] EXCEPT !.results = flight_results])
                  ELSE c.current_flight_search]

\* the context after a turn that wrote the message and the flights named
WriteBack(c) ==
    /\ history' = c.history
    /\ current_flight_search' = c.current_flight_search
    /\ last_intent' = c.last_intent
    /\ last_parameters' = c.last_parameters
    /\ last_flight_results' = c.last_flight_results

\* one call of ChatbotEngine.process_query, with the context or without
ProcessQuery(user_query, context_manager, fault, generated, llm_answer) ==
    /\ budget > 0
    /\ \E turn \in {process_query(user_query, context_manager, fault, generated,
                                  llm_answer)} :
          \E written \in
                {IF turn.flights # NoObject
                 THEN update_flight_results(
                          add_message(TheContext, turn.message[1].role,
                                      turn.message[1].content, turn.message[1].intent,
                                      turn.message[1].parameters),
                          turn.flights[1])
                 ELSE IF turn.message # NoObject
                 THEN add_message(TheContext, turn.message[1].role,
                                  turn.message[1].content, turn.message[1].intent,
                                  turn.message[1].parameters)
                 ELSE TheContext} :
             /\ WriteBack(written)
             /\ added' = IF turn.message # NoObject THEN Append(added, turn.message[1])
                         ELSE added
             /\ ret' = [Return("process_query") EXCEPT
                           !.turn = turn @@ [user_query |-> user_query,
                                             context_manager |-> context_manager,
                                             fault |-> fault],
                           !.text = turn.response.raw_response,
                           !.path = "engine",
                           !.appended = IF turn.message # NoObject
                                        THEN <<turn.message[1]>> ELSE <<>>]
    /\ budget' = budget - 1
    /\ user_message' = user_query
    /\ UNCHANGED <<max_history, rag, app>>

\* what the language model answers: some text, or nothing
LlmAnswers == {"Economy: 1 checked bag up to 23 kg", ""}

(***************************************************************************)
(* flight_data/flight_simulator.py and core/response_builder.py, as far as *)
(* app.py uses them.  A text is modelled by its heading and the values it  *)
(* is built from.                                                          *)
(***************************************************************************)
\* FlightSimulator.search_flights: the codes are looked up as given
simulator_search_flights(origin, destination, generated) ==
    IF origin \notin DOMAIN AIRPORTS THEN FlightData(FALSE, <<>>)
    ELSE IF destination \notin DOMAIN AIRPORTS THEN FlightData(FALSE, <<>>)
    ELSE FlightData(TRUE, generated)

\* FlightSimulator.format_flight_response
format_flight_response(search_results, origin, destination) ==
    IF ~search_results.success THEN "I couldn't find any flights."
    ELSE IF search_results.flights = <<>>
    THEN "No flights available from " \o origin \o " to " \o destination
    ELSE "Air India Flights from " \o origin \o " to " \o destination

\* any(word in user_query_lower for word in words)
any_in(words, user_query_lower) == \E word \in words : str_in(word, user_query_lower)

\* ResponseBuilder._build_flight_response
build_flight_response(action_result) ==
    IF action_result.type = "error"
    THEN "ERROR IN FLIGHT SEARCH: " \o
         (IF action_result.message # None THEN action_result.message
          ELSE "Error in flight search")
    ELSE IF action_result.type = "flight_results"
    THEN IF ~action_result.data.success THEN "No flights found for your search."
         ELSE "AIR INDIA - FLIGHT SEARCH RESULTS: " \o
              str_of_int(Len(action_result.data.flights)) \o " flights found"
    ELSE "Processing your flight search..."

\* ResponseBuilder._build_policy_response
build_policy_response(action_result) ==
    IF action_result.type = "policy_answer"
    THEN "AIR INDIA - POLICY INFORMATION: " \o
         (IF Truthy(action_result.answer) THEN action_result.answer
          ELSE "No specific information found for your query.")
    ELSE "Consulting Air India policies..."

\* ResponseBuilder._build_general_response
build_general_response(user_query) ==
    LET user_query_lower == str_lower(user_query)
    IN  IF user_query = "" THEN "NAMASTE!"
        ELSE IF any_in({"hi", "hello", "hey", "namaste", "hola"}, user_query_lower)
        THEN "NAMASTE! I am Maharaja"
        ELSE IF any_in({"bye", "thanks", "thank you", "gracias"}, user_query_lower)
        THEN "THANK YOU FOR USING AIR INDIA ASSISTANT"
        ELSE IF any_in({"help", "what can you do", "capabilities"}, user_query_lower)
        THEN "HOW CAN I HELP YOU?"
        ELSE IF any_in({"maharaja club", "loyalty", "benefits", "frequent flyer"},
                       user_query_lower)
        THEN "MAHARAJA CLUB"
        ELSE "QUERY: " \o user_query

\* ResponseBuilder.build_response; action_result is raw_data or {}
builder_build_response(intent, action_result, user_query) ==
    IF intent = "flight_search" THEN build_flight_response(action_result)
    ELSE IF intent = "policy_question" THEN build_policy_response(action_result)
    ELSE IF intent = "general_chat" THEN build_general_response(user_query)
    ELSE IF intent = "error" THEN "SOMETHING WENT WRONG"
    ELSE "I'M NOT SURE HOW TO HELP WITH THAT: " \o user_query

(***************************************************************************)
(* app.py: the script of a session and get_airindia_response               *)
(***************************************************************************)
\* the one place that constructs a ConversationContext; the instance gets
\* this identity
context_id == 1

\* st.cache_resource on initialize_components: the body runs when nothing
\* is cached, and every later call, from any session, gets the cached object
cache_resource(cache, constructed) == IF cache = NoObject THEN constructed ELSE cache[1]

\* lines 370-389: the IntentType the assistant message is stored with
intent_mapping(intent) ==
    IF intent = None \/ intent = "" THEN GENERAL_CHAT
    ELSE LET intent_str == str_upper(intent)
         IN  CASE intent_str = "FLIGHT_SEARCH" -> FLIGHT_SEARCH
               [] intent_str = "POLICY_QUESTION" -> POLICY_QUESTION
               [] intent_str = "GENERAL_CHAT" -> GENERAL_CHAT
               [] intent_str = "UNKNOWN" -> UNKNOWN
               [] OTHER -> GENERAL_CHAT

\* what the collaborators of app.py do in a turn
AppFaults == {"none", "search_flights", "get_answer", "direct_search"}
AppOutcomes ==
    {[fault |-> "none", generated |-> g,
      llm_answer |-> "Economy: 1 checked bag up to 23 kg"] : g \in GeneratedFlights} \cup
    {[fault |-> f, generated |-> SubSeq(FlightCatalog, 1, 3),
      llm_answer |-> "Economy: 1 checked bag up to 23 kg"] : f \in AppFaults \ {"none"}}
\* the chat inputs of a session: a search, a follow-up, a policy question,
\* a greeting, and nothing
AppQueries ==
    {"flights from delhi to mumbai", "the first", "baggage allowance for canada",
     "hello", ""}

\* detect_intent of the attached detector for the queries of a turn and the
\* contexts a turn can find, computed once
AttachedDetectionOf ==
    [q \in EngineQueries, context_last_intent \in {None} \cup IntentType,
     flights \in {<<>>} \cup GeneratedFlights |->
        detect_intent_attached(q, context_last_intent, flights)]
\* extract_flight_parameters of the queries of a turn, computed once
ManualParamsOf == [q \in EngineQueries |-> extract_flight_parameters(q)]
app_detect_intent(user_query) ==
    IF <<user_query, last_intent, last_flight_results>> \in DOMAIN AttachedDetectionOf
    THEN AttachedDetectionOf[user_query, last_intent, last_flight_results]
    ELSE detect_intent(user_query)

\* what a turn of the app hands back: the text, the path it took, the
\* context it leaves, the messages it appended, the calls it made, the
\* result of the direct search and the engine's turn
AppTurn(text, path, context, appended, calls, direct, engine) ==
    [text |-> text, path |-> path, context |-> context, appended |-> appended,
     calls |-> calls, direct |-> direct, engine |-> engine]

\* lines 344-418: the answer built from the engine's turn, and the write-back
engine_answered(user_query, before, turn) ==
    LET chatbot_response == turn.response
        with_user == IF turn.message # NoObject
                     THEN add_message(TheContext, turn.message[1].role,
                                      turn.message[1].content, turn.message[1].intent,
                                      turn.message[1].parameters)
                     ELSE TheContext
        after_engine == IF turn.flights # NoObject
                        THEN update_flight_results(with_user, turn.flights[1])
                        ELSE with_user
        formatted_response == builder_build_response(chatbot_response.intent,
                                                     chatbot_response.raw_data, user_query)
        intent_type == intent_mapping(chatbot_response.intent)
        parameters == IF chatbot_response.raw_data = NoActionResult THEN NoObject
                      ELSE Some(chatbot_response.raw_data)
        assistant == Message("assistant", formatted_response, intent_type, parameters)
        with_assistant == add_message(after_engine, "assistant", formatted_response,
                                      intent_type, parameters)
        updates == /\ chatbot_response.intent = "flight_search"
                   /\ chatbot_response.raw_data.type = "flight_results"
                   /\ chatbot_response.raw_data.data.flights # <<>>
        final == IF updates
                 THEN update_flight_results(with_assistant,
                                            chatbot_response.raw_data.data.flights)
                 ELSE with_assistant
    IN  AppTurn(formatted_response \o " [Processed]", "engine", final,
                (IF turn.message # NoObject THEN <<turn.message[1]>> ELSE <<>>) \o
                    <<assistant>>,
                before \o turn.calls \o <<"add_message">> \o
                    (IF updates THEN <<"update_flight_results">> ELSE <<>>),
                NoObject, turn)

\* lines 336-418: the turn through the engine, and the write-back after it
through_engine(user_query, fault, generated, llm_answer, before) ==
    engine_answered(user_query, before,
                    process_query(user_query, TRUE, fault, generated, llm_answer))

\* extract_flight_parameters(user_query) of lines 245-247
manual_flight_parameters(query) ==
    IF query \in DOMAIN ManualParamsOf THEN ManualParamsOf[query]
    ELSE extract_flight_parameters(query)

\* lines 219-418: the turn of a non-empty query, given the detected intent
\* and the manually extracted parameters
route_query(query, fault, generated, llm_answer, intent_result, manual_params) ==
    LET detected_parameters == intent_result.parameters
        missing == \/ ~Truthy(DictGet(detected_parameters, "origin", None))
                   \/ ~Truthy(DictGet(detected_parameters, "destination", None))
        parameters ==
            IF /\ intent_result.intent = "flight_search"
               /\ missing
               /\ Truthy(manual_params.origin)
               /\ Truthy(manual_params.destination)
            THEN manual_params @@ detected_parameters
            ELSE detected_parameters
        detected == [intent_result EXCEPT !.parameters = parameters]
        origin == DictGet(parameters, "origin", None)
        destination == DictGet(parameters, "destination", None)
        flight_result == simulator_search_flights(origin, destination, generated)
        engine_empty == Turn(NoResponse, <<>>, NoObject, NoObject)
    IN  IF /\ intent_result.intent = "flight_search"
           /\ Truthy(origin)
           /\ Truthy(destination)
           /\ fault # "direct_search"
        THEN IF flight_result.success
             THEN AppTurn(format_flight_response(flight_result, origin, destination)
                             \o " [Direct flight search - " \o
                             str_of_int(Len(flight_result.flights)) \o " flights]",
                          "direct",
                          IF flight_result.flights # <<>>
                          THEN update_flight_results(TheContext, flight_result.flights)
                          ELSE TheContext,
                          <<>>,
                          <<"detect_intent", "simulator.search_flights">> \o
                             (IF flight_result.flights # <<>>
                              THEN <<"update_flight_results">> ELSE <<>>),
                          Some(flight_result),
                          [engine_empty EXCEPT !.detected = detected])
             ELSE AppTurn("No flights available from " \o origin \o " to " \o
                             destination,
                          "direct_failed", TheContext, <<>>,
                          <<"detect_intent", "simulator.search_flights">>,
                          Some(flight_result),
                          [engine_empty EXCEPT !.detected = detected])
        ELSE through_engine(query, fault, generated, llm_answer,
                            IF /\ intent_result.intent = "flight_search"
                               /\ Truthy(origin)
                               /\ Truthy(destination)
                            THEN <<"detect_intent", "simulator.search_flights">>
                            ELSE <<"detect_intent">>)

\* get_airindia_response(user_query) in a session whose context is the one
\* of the model.  The except clause of lines 420-443 is not reached: the
\* detector, the engine and the builder return a value on every input.
get_airindia_response(user_query, fault, generated, llm_answer) ==
    IF user_query = "" \/ str_strip(user_query) = ""
    THEN AppTurn("Please enter a question about Air India.", "empty", TheContext, <<>>,
                 <<>>, NoObject, Turn(NoResponse, <<>>, NoObject, NoObject))
    ELSE route_query(str_strip(user_query), fault, generated, llm_answer,
                     app_detect_intent(str_strip(user_query)),
                     manual_flight_parameters(str_strip(user_query)))

\* lines 179-184: a run of the script in a session
RunScript(session) ==
    /\ resource_cache' = Some(cache_resource(resource_cache, context_id))
    /\ session_state' = IF session_state[session] = NoObject
                        THEN [session_state EXCEPT
                                 ![session] = Some(cache_resource(resource_cache,
                                                                  context_id))]
                        ELSE session_state
    /\ ret' = [Return("script") EXCEPT !.session = session]
    /\ UNCHANGED <<ctx, added, budget, user_message, rag, turns>>

\* the session's context is the instance the model's variables describe
HoldsContext(session) ==
    session_state[session] # NoObject /\ session_state[session][1] = context_id

\* a chat input of a session: get_airindia_response
GetAirindiaResponse(session, user_query, fault, generated, llm_answer) ==
    /\ budget > 0
    /\ HoldsContext(session)
    /\ \E turn \in {get_airindia_response(user_query, fault, generated, llm_answer)} :
           /\ WriteBack(turn.context)
           /\ added' = added \o turn.appended
           /\ ret' = [Return("get_airindia_response") EXCEPT
                         !.session = session,
                         !.turn = [turn.engine @@ [user_query |-> user_query,
                                                   context_manager |-> TRUE,
                                                   fault |-> fault]
                                      EXCEPT !.calls = turn.calls],
                         !.text = turn.text,
                         !.path = turn.path,
                         !.appended = turn.appended,
                         !.direct = turn.direct]
    /\ budget' = budget - 1
    /\ turns' = [turns EXCEPT ![session] = @ + 1]
    /\ user_message' = user_query
    /\ UNCHANGED <<max_history, rag, resource_cache, session_state>>

\* lines 605-607: the button "Clear Context Only" of a session
ClearContext(session) ==
    /\ HoldsContext(session)
    /\ history' = <<>>
    /\ current_flight_search' = NoObject
    /\ last_intent' = None
    /\ last_parameters' = NoObject
    /\ last_flight_results' = <<>>
    /\ added' = <<>>
    /\ ret' = [Return("clear") EXCEPT !.session = session]
    /\ UNCHANGED <<max_history, budget, user_message, rag, app>>

\* lines 613-615: the sidebar of a session reads the summary
ShowContextStats(session) ==
    /\ HoldsContext(session)
    /\ ret' = [Return("get_conversation_summary") EXCEPT
                  !.session = session, !.summary = get_conversation_summary]
    /\ UNCHANGED <<ctx, added, budget, user_message, rag, app>>

(***************************************************************************)
(* Inputs                                                                  *)
(***************************************************************************)
\* the items of V joined by single spaces, 1..n items
RECURSIVE Phrases(_, _)
Phrases(V, n) ==
    IF n <= 1 THEN V
    ELSE LET shorter == Phrases(V, n - 1)
         IN  shorter \cup {pw[1] \o " " \o pw[2] : pw \in shorter \X V}

\* what the callers pass to add_message: the enum members (app.py) and the
\* plain string of the intent result (ChatbotEngine.process_query)
Roles == {"user", "assistant"}
ContentOf(role) == IF role = "user" THEN "Flights from Delhi to Mumbai" ELSE "Found 3 flights"
IntentInputs == {None, FLIGHT_SEARCH, POLICY_QUESTION, "flight_search"}
SearchParams == [origin |-> "DEL", destination |-> "BOM", date |-> "tomorrow"]
ParameterInputs == {NoObject, Some(EmptyDict), Some(SearchParams)}
\* the lists the context specification hands to update_flight_results
CtxFlightLists == {<<>>, SubSeq(FlightCatalog, 2, 3), SubSeq(FlightCatalog, 1, 1)}

\* vocabulary of follow-up messages
RefVocab ==
    {"what about the 9:30 flight", "12:15", "first", "fifth", "last", "previous", "that",
     "AI 865", "ix 123"}
RefTexts == Phrases(RefVocab, MaxWords) \cup {"", " "}

\* vocabulary of flight requests: codes in both cases, a stop-listed word, a
\* word that is no airport, city names, a date, and a passenger count within
\* and one above the accepted range
ExtractVocab ==
    {"DEL", "bom", "the", "XYZ", "to", "new delhi", "Mumbai", "london", "2 people",
     "12 people", "next week"}
ExtractTexts == Phrases(ExtractVocab, MaxExtractWords) \cup {""}

\* vocabulary of messages to classify: one per rule of detect_intent
IntentVocab ==
    {"flights from delhi to mumbai", "baggage allowance for canada", "first", "hello",
     "book a ticket", "ticket", "DEL BOM", "refund policy", "luggage"}
IntentTexts == Phrases(IntentVocab, MaxIntentWords) \cup {"", "  "}
IntentFlightLists == {<<>>, SubSeq(FlightCatalog, 2, 3)}

\* queries, and the chunks of a collection: tagged as the indexer joins its
\* tags, untagged ("none"), without the key (""), and tagged by a wider tag
\* set than the handler's country list ("south africa")
RagQueries ==
    {"baggage allowance for canada", "flights to south korea", "check-in rules",
     "uk baggage"}
DocCatalog ==
    << Document(1, "baggage", "none"), Document(2, "faq", "canada, south korea"),
       Document(3, "general", ""), Document(4, "baggage", "south africa") >>

\* the rankings: every arrangement of at most n distinct catalog entries
RECURSIVE Arrangements(_)
Arrangements(n) ==
    IF n = 0 THEN {<<>>}
    ELSE LET shorter == Arrangements(n - 1)
         IN  shorter \cup
             {Append(lst, doc) : <<lst, doc>> \in
                 {ld \in shorter \X {DocCatalog[i] : i \in 1..Len(DocCatalog)} :
                     /\ Len(ld[1]) = n - 1
                     /\ \A i \in 1..Len(ld[1]) : ld[1][i] # ld[2]}}
DocLists == Arrangements(MaxDocs)
\* k not given, the small values, and a request as wide as the store query
KInputs ==
    {NoObject} \cup {Some(n) : n \in (-1)..MaxK} \cup {Some(search_k)}
TypeInputs == {None, "FAQ"}

\* what the collaborators do in a turn: either all answer, or one call
\* raises while the others answer
Outcomes ==
    {[fault |-> "none", generated |-> g, llm_answer |-> a] :
        g \in GeneratedFlights, a \in LlmAnswers} \cup
    {[fault |-> f, generated |-> SubSeq(FlightCatalog, 1, 3),
      llm_answer |-> "Economy: 1 checked bag up to 23 kg"] : f \in Faults \ {"none"}}

(***************************************************************************)
(* Specification of the context: history, staged search, cached results    *)
(***************************************************************************)
Init ==
    /\ \E n \in 0..MaxHistory : FreshContext(n)
    /\ added = <<>>
    /\ budget = MaxAdds
    /\ user_message = ""
    /\ NoRag
    /\ NoApp
    /\ ret = NoReturn

Next ==
    \/ \E role \in Roles, intent \in IntentInputs, parameters \in ParameterInputs :
          AddMessage(role, ContentOf(role), intent, parameters)
    \/ \E flight_results \in CtxFlightLists : UpdateFlightResults(flight_results)
    \/ GetConversationSummary
    \/ Clear

Spec == Init /\ [][Next]_vars

(***************************************************************************)
(* Specification of reference resolution: a follow-up message against the  *)
(* cached results of a context constructed as app.py does                  *)
(***************************************************************************)
AppMaxHistory == 15

InitRef ==
    /\ FreshContext(AppMaxHistory)
    /\ added = <<>>
    /\ budget = 0
    /\ user_message \in RefTexts
    /\ NoRag
    /\ NoApp
    /\ ret = NoReturn

NextRef ==
    \/ \E flight_results \in FlightLists : UpdateFlightResults(flight_results)
    \/ ResolveReference
    \/ Clear

SpecRef == InitRef /\ [][NextRef]_vars

(***************************************************************************)
(* Specification of parameter extraction: one request text                 *)
(***************************************************************************)
InitExtract ==
    /\ FreshContext(AppMaxHistory)
    /\ added = <<>>
    /\ budget = 0
    /\ user_message \in ExtractTexts
    /\ NoRag
    /\ NoApp
    /\ ret = NoReturn

NextExtract == ExtractFlightParameters

SpecExtract == InitExtract /\ [][NextExtract]_vars

(***************************************************************************)
(* Specification of intent detection: a detector attached to the context   *)
(* of app.py, one message, and the context moving under it                 *)
(***************************************************************************)
InitIntent ==
    /\ FreshContext(AppMaxHistory)
    /\ added = <<>>
    /\ budget = 1
    /\ user_message \in IntentTexts
    /\ NoRag
    /\ NoApp
    /\ ret = NoReturn

NextIntent ==
    \/ DetectIntent
    \/ \E intent \in {FLIGHT_SEARCH, "flight_search"} :
          AddMessage("user", ContentOf("user"), intent, Some(SearchParams))
    \/ \E flight_results \in IntentFlightLists : UpdateFlightResults(flight_results)

SpecIntent == InitIntent /\ [][NextIntent]_vars

(***************************************************************************)
(* Specification of retrieval: a handler as constructed (initialized or    *)
(* not), one query, and the ranking the vector store holds for it          *)
(***************************************************************************)
InitRag ==
    /\ FreshContext(AppMaxHistory)
    /\ added = <<>>
    /\ budget = 0
    /\ user_message \in RagQueries
    /\ is_initialized \in BOOLEAN
    /\ db_docs \in (IF is_initialized THEN DocLists ELSE {<<>>})
    /\ NoApp
    /\ ret = NoReturn

NextRag ==
    \/ \E k \in KInputs, filter_by_type \in TypeInputs, raises \in BOOLEAN :
          Search(k, filter_by_type, raises)
    \/ \E raises \in BOOLEAN : GetContext(raises)

SpecRag == InitRag /\ [][NextRag]_vars

(***************************************************************************)
(* Specification of the engine: turns of process_query on an engine as     *)
(* constructed (retrieval initialized or not), with the context of app.py  *)
(* or with none, and collaborators that answer or raise                    *)
(***************************************************************************)
InitEngine ==
    /\ FreshContext(AppMaxHistory)
    /\ added = <<>>
    /\ budget = MaxTurns
    /\ user_message = ""
    /\ is_initialized \in BOOLEAN
    /\ db_docs = <<>>
    /\ NoApp
    /\ ret = NoReturn

NextEngine ==
    \E user_query \in EngineQueries, context_manager \in BOOLEAN, outcome \in Outcomes :
        ProcessQuery(user_query, context_manager, outcome.fault, outcome.generated,
                     outcome.llm_answer)

SpecEngine == InitEngine /\ [][NextEngine]_vars

(***************************************************************************)
(* Specification of the app: sessions of one Streamlit server run the      *)
(* script, send chat inputs, clear the context and show its statistics     *)
(***************************************************************************)
InitApp ==
    /\ FreshContext(AppMaxHistory)
    /\ added = <<>>
    /\ budget = MaxTurns
    /\ user_message = ""
    /\ is_initialized \in BOOLEAN
    /\ db_docs = <<>>
    /\ NoApp
    /\ ret = NoReturn

NextApp ==
    \/ \E session \in Sessions : RunScript(session)
    \/ \E session \in Sessions, user_query \in AppQueries, outcome \in AppOutcomes :
          GetAirindiaResponse(session, user_query, outcome.fault, outcome.generated,
                              outcome.llm_answer)
    \/ \E session \in Sessions : ClearContext(session)
    \/ \E session \in Sessions : ShowContextStats(session)

SpecApp == InitApp /\ [][NextApp]_vars

(***************************************************************************)
(* Properties of reference resolution (SpecRef)                            *)
(***************************************************************************)
Resolved == ret.call = "resolve_reference"
HasDigit(text) == \E i \in 1..Len(text) : Char(text, i) \in DigitChars
OrdinalWords == {"first", "second", "third", "fourth", "fifth", "last", "previous"}

\* C2: while last_flight_results is empty, resolve_reference returns
\* has_reference = false whatever the message contains
C2_EmptyResultsNoReference ==
    (Resolved /\ last_flight_results = <<>>) => ret.resolved = NoReference

\* an empty cache asked about a time, an ordinal and a generic word at once
C2_Witness ==
    /\ Resolved /\ last_flight_results = <<>>
    /\ user_message = "12:15 that"

\* the departure time the way a user writes it: no leading zero
UserStyle(departure_time) ==
    IF Char(departure_time, 1) = "0" THEN SubSeq(departure_time, 2, Len(departure_time))
    ELSE departure_time
NamesTimeOf(text, flight) ==
    text \in {UserStyle(flight.departure_time),
              "what about the " \o UserStyle(flight.departure_time) \o " flight"}

\* C3: a follow-up naming a cached flight's departure time the way a user
\* writes it ("9:30" for "09:30") resolves to that flight by time
C3_UserTimeResolves ==
    Resolved =>
        \A i \in 1..Len(last_flight_results) :
            NamesTimeOf(user_message, last_flight_results[i]) =>
                /\ ret.resolved.has_reference
                /\ ret.resolved.reference_type = "time"
                /\ ret.resolved.referenced_flight = last_flight_results[i]

\* the time rule of the code: the first number of the message, taken as an
\* hour, is a prefix of some cached departure time
TimeRuleMatches ==
    /\ HasDigit(user_message)
    /\ LET hour == time_hour(str_lower(user_message))
       IN  \E i \in 1..Len(last_flight_results) :
               str_startswith(last_flight_results[i].departure_time, hour)
\* position (1-based) an ordinal word stands for in a list of n flights
OrdinalPosition(word, n) ==
    CASE word = "first" -> 1 [] word = "second" -> 2 [] word = "third" -> 3
      [] word = "fourth" -> 4 [] word = "fifth" -> 5
      [] word \in {"last", "previous"} -> n
OrdinalsIn(text) ==
    LET lowered == str_lower(text) IN {w \in OrdinalWords : str_in(w, lowered)}
InRange(text, n) == {w \in OrdinalsIn(text) : OrdinalPosition(w, n) \in 1..n}
\* rank of an ordinal word in ordinal_map
MapRank(word) == CHOOSE k \in 1..Len(ordinal_map) : ordinal_map[k].ordinal = word
FlightNumberRuleMatches ==
    LET number == flight_num_match(str_upper(user_message))
    IN  \E i \in 1..Len(last_flight_results) :
            last_flight_results[i].flight_number = number
GenericRuleMatches ==
    LET lowered == str_lower(user_message)
    IN  \E word \in {"that", "it", "this", "the flight"} : str_in(word, lowered)

\* C4: with cached flights and no time match, an ordinal word whose index
\* is in range resolves to the flight at that position (first..fifth =
\* positions 1..5, last and previous = the final one; of several words the
\* first of the map wins); out-of-range ordinals are skipped and the later
\* rules decide
C4_OrdinalResolves ==
    (Resolved /\ last_flight_results # <<>> /\ ~TimeRuleMatches
        /\ OrdinalsIn(user_message) # {}) =>
        LET n == Len(last_flight_results)
            usable == InRange(user_message, n)
        IN  IF usable # {}
            THEN LET word == CHOOSE w \in usable : \A v \in usable : MapRank(w) <= MapRank(v)
                 IN  /\ ret.resolved.has_reference
                     /\ ret.resolved.reference_type = "ordinal"
                     /\ ret.resolved.ordinal = word
                     /\ ret.resolved.referenced_flight =
                            last_flight_results[OrdinalPosition(word, n)]
            ELSE /\ ret.resolved.reference_type # "ordinal"
                 /\ FlightNumberRuleMatches => ret.resolved.reference_type = "flight_number"
                 /\ (GenericRuleMatches /\ ~FlightNumberRuleMatches) =>
                        /\ ret.resolved.reference_type = "generic"
                        /\ ret.resolved.referenced_flight = last_flight_results[1]
                 /\ (~GenericRuleMatches /\ ~FlightNumberRuleMatches) =>
                        ret.resolved = NoReference

\* "last" next to a generic word, on a list of three flights
C4_Witness ==
    /\ Resolved /\ Len(last_flight_results) = 3
    /\ user_message = "that last"
    /\ ret.resolved.reference_type = "ordinal"
    /\ ret.resolved.referenced_flight = last_flight_results[3]

C6_HistoryIsLastN ==
    max_history >= 1 =>
        LET n == Len(added)
            kept == IF n < max_history THEN n ELSE max_history
        IN  /\ Len(history) <= max_history
            /\ history = SubSeq(added, n - kept + 1, n)

\* N + 1 = 2 different messages added to a context with N = 1
C6_Witness ==
    /\ max_history = 1 /\ Len(added) = 2 /\ added[1] # added[2]
    /\ history = <<added[2]>>

Detected == ret.call = "detect_intent"

\* C1: whatever the text (empty and blank included) and whatever state the
\* attached context is in, detect_intent returns a result and does not
\* raise; the intent is one of flight_search, policy_question, general_chat,
\* unknown and the confidence lies in [0, 1] (0..1000 thousandths)
C1_DetectIntentTotal ==
    Detected =>
        /\ ~ret.detected.raised
        /\ ret.detected.success
        /\ ret.detected.intent \in IntentValues
        /\ ret.detected.confidence >= 0
        /\ ret.detected.confidence <= 1000

\* a follow-up classified through the context after a flight search, on a
\* context whose history holds that search
C1_Witness ==
    /\ Detected
    /\ last_intent = FLIGHT_SEARCH
    /\ Len(history) = 1
    /\ ret.detected.reason = "context_reference"
    /\ ret.detected.intent = "flight_search"
    /\ ret.detected.confidence = 880

(***************************************************************************)
(* Properties of parameter extraction (SpecExtract)                        *)
(***************************************************************************)
Extracted == ret.call = "extract_flight_parameters"

\* the words of a text: its maximal runs of letters, digits and underscore
RECURSIVE WordsOf(_)
WordsOf(text) ==
    IF text = "" THEN <<>>
    ELSE IF Char(text, 1) \notin WordChars THEN WordsOf(SubSeq(text, 2, Len(text)))
    ELSE LET stop == Min({q \in 1..(Len(text) + 1) : Char(text, q) \notin WordChars})
         IN  <<SubSeq(text, 1, stop - 1)>> \o WordsOf(SubSeq(text, stop, Len(text)))

\* the airport codes a text names, in order: its words that are, in either
\* case, a code of the airport table and not a stop-listed word
AllowListed == (DOMAIN AIRPORTS) \ INVALID_IATA_CODES
CodesNamed(text) ==
    LET words == WordsOf(text)
        upper == [i \in 1..Len(words) |-> str_upper(words[i])]
    IN  SelectSeq(upper, LAMBDA word : word \in AllowListed)

\* C8: when the first two airport codes X, Y a text names are distinct,
\* whatever three-letter words stand around them, extraction returns
\* origin = X and destination = Y
C8_FirstTwoCodes ==
    Extracted =>
        LET codes == CodesNamed(user_message)
        IN  (Len(codes) >= 2 /\ codes[1] # codes[2]) =>
                /\ ret.params.origin = codes[1]
                /\ ret.params.destination = codes[2]

\* two codes after a stop-listed three-letter word
C8_Witness ==
    /\ Extracted
    /\ user_message = "the bom DEL"
    /\ ret.params.origin = "BOM"
    /\ ret.params.destination = "DEL"

\* the cities a text names: the table names occurring in it, an occurrence
\* inside a longer table name ("delhi" in "new delhi") not counting, each at
\* its first such occurrence, in order of position
CityNames == {CITY_TO_IATA[i][1] : i \in 1..Len(CITY_TO_IATA)}
CityCode(name) ==
    CITY_TO_IATA[CHOOSE i \in 1..Len(CITY_TO_IATA) : CITY_TO_IATA[i][1] = name][2]
OccursAt(name, text, p) ==
    p + Len(name) - 1 <= Len(text) /\ SubSeq(text, p, p + Len(name) - 1) = name
NamedAt(name, text, p) ==
    /\ OccursAt(name, text, p)
    /\ ~\E longer \in CityNames, q \in 1..p :
          /\ Len(longer) > Len(name)
          /\ OccursAt(longer, text, q)
          /\ q + Len(longer) >= p + Len(name)
RECURSIVE InPositionOrder(_)
InPositionOrder(S) ==
    IF S = {} THEN <<>>
    ELSE LET lowest == CHOOSE x \in S : \A y \in S : x[1] <= y[1]
         IN  <<lowest>> \o InPositionOrder(S \ {lowest})
CitiesNamed(text) ==
    LET lowered == str_lower(text)
        first(name) == Min({p \in 1..Len(lowered) : NamedAt(name, lowered, p)})
        named == {name \in CityNames : \E p \in 1..Len(lowered) : NamedAt(name, lowered, p)}
        order == InPositionOrder({<<first(name), name>> : name \in named})
    IN  [i \in 1..Len(order) |-> order[i][2]]

\* C9: a text that names no pair of airport codes but names two cities of the
\* table, A first and B second, gives origin = code(A), destination = code(B)
C9_CityPairResolves ==
    Extracted =>
        LET cities == CitiesNamed(user_message)
        IN  (Len(CodesNamed(user_message)) < 2 /\ Len(cities) >= 2) =>
                /\ ret.params.origin = CityCode(cities[1])
                /\ ret.params.destination = CityCode(cities[2])

(***************************************************************************)
(* Properties of retrieval (SpecRag)                                       *)
(***************************************************************************)
Searched == ret.call = "search"

\* the tags of a chunk: countries_mentioned split at ", ", "none" dropped
RECURSIVE SplitTags(_)
SplitTags(joined) ==
    IF joined = "" THEN {}
    ELSE IF str_in(", ", joined)
    THEN {SubSeq(joined, 1, str_find(joined, ", "))} \cup
         SplitTags(SubSeq(joined, str_find(joined, ", ") + 3, Len(joined)))
    ELSE {joined}
TagsOf(doc) == SplitTags(str_lower(doc.countries_mentioned)) \ {"none"}
Untagged(doc) == TagsOf(doc) = {}

\* 1 exact: tagged with the country; 2 partial: a tag shares the first word
\* of a country of several words; 3 no match
TierRank(doc, country) ==
    IF country \in TagsOf(doc) THEN 1
    ELSE IF \E tag \in TagsOf(doc) :
               /\ WordsOf(country)[1] # country
               /\ WordsOf(country)[1] \in {WordsOf(tag)[i] : i \in 1..Len(WordsOf(tag))}
    THEN 2
    ELSE 3

\* rank of a chunk in the similarity search
RankOf(doc) == CHOOSE i \in 1..Len(db_docs) : db_docs[i] = doc

\* C10: when the query names a country, the returned documents come exact
\* tier first, partial tier next, no-match tier last, each tier in the rank
\* order of the similarity search; no untagged document precedes a document
\* tagged with that country
C10_TieredOrder ==
    (Searched /\ ret.found.success /\ ret.found.country_filter # None) =>
        LET documents == ret.found.documents
            country == ret.found.country_filter
        IN  \A i, j \in 1..Len(documents) :
                i < j =>
                    LET a == documents[i].metadata
                        b == documents[j].metadata
                    IN  /\ TierRank(a, country) <= TierRank(b, country)
                        /\ TierRank(a, country) = TierRank(b, country) =>
                              RankOf(a) < RankOf(b)
                        /\ ~(Untagged(a) /\ country \in TagsOf(b))

\* a South Korea query whose ranking puts an untagged chunk first: the
\* answer holds the tagged chunk, then the partial match, then that chunk
C10_Witness ==
    /\ Searched
    /\ ret.found.success
    /\ ret.found.country_filter = "south korea"
    /\ Len(ret.found.documents) = 3
    /\ Untagged(db_docs[1])
    /\ "south korea" \in TagsOf(ret.found.documents[1].metadata)
    /\ TierRank(ret.found.documents[2].metadata, "south korea") = 2
    /\ ret.found.documents[3].metadata = db_docs[1]

\* the k search truncates to: k_results when k is None or 0
KUsed == IF ret.args.k = NoObject \/ ret.args.k[1] = 0 THEN k_results ELSE ret.args.k[1]
\* the chunks of the answer, in the order returned
Returned == [i \in 1..Len(ret.found.documents) |-> ret.found.documents[i].metadata]

\* C11: for every integer k passed to search, the number of documents
\* returned and the reported count are at most k
C11_CountWithinK ==
    (Searched /\ ret.args.k # NoObject) =>
        /\ Len(ret.found.documents) <= ret.args.k[1]
        /\ ret.found.count <= ret.args.k[1]

\* no candidate is in the exact or the partial tier of the detected country
NoCountryMatch ==
    \/ ret.found.country_filter = None
    \/ \A i \in 1..Len(db_docs) : TierRank(db_docs[i], ret.found.country_filter) = 3
\* a content type is requested and no candidate has it
NoTypeMatch ==
    /\ ret.args.filter_by_type # None
    /\ \A i \in 1..Len(db_docs) :
          str_lower(db_docs[i].content_type) # str_lower(ret.args.filter_by_type)

\* C12: filtering never empties a non-empty candidate set (k None or >= 0):
\* the answer is not empty; when no candidate matches the country and none
\* the requested type (or none is requested) it is the candidates in rank
\* order cut to k; when no candidate has the requested type it is the
\* answer of the same search without the type filter
C12_NeverEmptied ==
    (Searched /\ ret.found.success /\ db_docs # <<>>
        /\ (ret.args.k = NoObject \/ ret.args.k[1] >= 0)) =>
        /\ Returned # <<>>
        /\ ret.found.count = Len(Returned)
        /\ (NoCountryMatch /\ (ret.args.filter_by_type = None \/ NoTypeMatch)) =>
              Returned = SubSeq(db_docs, 1, Min({KUsed, Len(db_docs)}))
        /\ NoTypeMatch =>
              ret.found.documents = search_try(user_message, ret.args.k, None).documents

\* a country no candidate is tagged with and a type no candidate has: the
\* whole ranking comes back as it was
C12_Witness ==
    /\ Searched /\ ret.found.success
    /\ ret.found.country_filter = "europe"
    /\ ret.args.filter_by_type = "FAQ"
    /\ NoTypeMatch
    /\ Len(db_docs) = 3
    /\ Returned = db_docs

\* C13: search lets no exception out; when the store raises or the handler
\* is not initialized it returns success = false, found = false, no
\* documents and count = 0, and an uninitialized handler does not call the
\* store
C13_FailureAsValue ==
    Searched =>
        /\ ~ret.found.raised
        /\ (~is_initialized \/ ret.args.raises) =>
              /\ ~ret.found.success
              /\ ~ret.found.found
              /\ ret.found.documents = <<>>
              /\ ret.found.count = 0
              /\ ret.found.error # None
        /\ ~is_initialized => ret.found.db_calls = 0

\* the store raising under an initialized handler with candidates
C13_Witness ==
    /\ Searched
    /\ is_initialized /\ db_docs # <<>>
    /\ ret.args.raises
    /\ ret.found.db_calls = 1
    /\ ~ret.found.success

\* C18: in detect_intent the context carry-over sits after the regex
\* patterns and before the keyword rules: with no pattern matching,
\* last_intent = FLIGHT_SEARCH and a resolved reference, the result is
\* flight_search, confidence 0.88, reason context_reference, parameters the
\* reference itself, whatever keywords the message holds; a matching
\* pattern wins over it; with any other last_intent the stage never fires
C18_CarryOverPrecedence ==
    (Detected /\ str_strip(user_message) # "") =>
        LET message == str_strip(user_message)
            reference == resolve_reference(message, last_flight_results)
            pattern == \/ any_pattern(FLIGHT_PATTERNS, message)
                       \/ any_pattern(POLICY_PATTERNS, message)
        IN  /\ (~pattern /\ last_intent = FLIGHT_SEARCH /\ reference.has_reference) =>
                  /\ ret.detected.intent = "flight_search"
                  /\ ret.detected.confidence = 880
                  /\ ret.detected.reason = "context_reference"
                  /\ ret.detected.parameters = reference
            /\ pattern => ret.detected.reason \in {"flight_pattern", "policy_pattern"}
            /\ last_intent # FLIGHT_SEARCH => ret.detected.reason # "context_reference"

\* a follow-up with two flight keywords and an ordinal, after a flight
\* search with cached results
C18_Witness ==
    /\ Detected
    /\ user_message = "book a ticket first"
    /\ count_keywords(str_lower(user_message), FLIGHT_KEYWORDS) >= 2
    /\ last_intent = FLIGHT_SEARCH
    /\ ret.detected.reason = "context_reference"
    /\ ret.detected.parameters.referenced_flight = last_flight_results[1]

(***************************************************************************)
(* Claims about ChatbotEngine.process_query                                *)
(***************************************************************************)
Processed == ret.call = "process_query"
Called(name) == \E i \in 1..Len(ret.turn.calls) : ret.turn.calls[i] = name
\* the route the detector resolved for the turn, None where it resolved none
DetectedOrigin == DictGet(ret.turn.detected.parameters, "origin", None)
DetectedDestination == DictGet(ret.turn.detected.parameters, "destination", None)

\* C14: search_flights is called only in a turn whose detected intent is
\* flight_search with both origin and destination resolved; a flight_search
\* turn that lacks either ends with the result {type: error, message,
\* suggestion}, no call of search_flights and no exception.
C14_SearchOnlyWhenResolved ==
    Processed =>
        /\ Called("search_flights") =>
               /\ ret.turn.detected.intent = "flight_search"
               /\ DetectedOrigin # None
               /\ DetectedDestination # None
        /\ (/\ ret.turn.response.intent = "flight_search"
            /\ (DetectedOrigin = None \/ DetectedDestination = None)) =>
               /\ ret.turn.response.raw_data.type = "error"
               /\ ret.turn.response.raw_data.message = "Missing origin or destination"
               /\ ret.turn.response.raw_data.suggestion # None
               /\ ~Called("search_flights")
               /\ ~ret.turn.response.raised

\* a request to book with no route: the structured error; and a search
\* with a route was made in the turn before
C14_Witness ==
    /\ Processed
    /\ ret.turn.user_query = "book a ticket"
    /\ ret.turn.response.intent = "flight_search"
    /\ ret.turn.response.raw_data.type = "error"
    /\ ~Called("search_flights")
    /\ last_flight_results # <<>>

CallIndex(name) ==
    IF Called(name) THEN Min({i \in 1..Len(ret.turn.calls) : ret.turn.calls[i] = name})
    ELSE 0
NonEmptyQuery == ret.turn.user_query # None /\ str_strip(ret.turn.user_query) # ""

\* C19: every non-empty query is classified by detect_intent before an
\* action is executed or a response is returned, also with a context that
\* holds cached flight results.
C19_DetectBeforeAct ==
    (Processed /\ NonEmptyQuery /\ ret.turn.fault = "none") =>
        /\ Called("detect_intent")
        /\ \A name \in {"search_flights", "get_answer"} :
               Called(name) => CallIndex("detect_intent") < CallIndex(name)

(***************************************************************************)
(* Properties of the sessions of the app (SpecApp)                         *)
(***************************************************************************)
Shown == ret.call = "get_conversation_summary" /\ ret.session # None
Answered == ret.call = "get_airindia_response"

\* C16: sessions do not share conversation state: the summary shown to a
\* session that has sent no chat input reports an empty context, whatever
\* the turns of the other sessions added to theirs.
C16_SessionsIsolated ==
    (Shown /\ turns[ret.session] = 0) =>
        /\ ~ret.summary.raised
        /\ ret.summary.message_count = 0
        /\ ret.summary.last_intent = None
        /\ ret.summary.flight_results_count = 0

\* C17: after a flight-search turn with a context and a resolved route,
\* last_flight_results is exactly the list the search of that turn
\* returned, the empty list when it found nothing or failed.
C17_ResultsReplaced ==
    (/\ Processed
     /\ ret.turn.context_manager
     /\ ret.turn.response.intent = "flight_search"
     /\ Truthy(DetectedOrigin)
     /\ Truthy(DetectedDestination)) =>
        last_flight_results = ret.turn.response.raw_data.data.flights

\* C20: every non-empty chat input answered with the session's context
\* appends at least one message of that turn to the history.
C20_TurnWrittenBack ==
    (Answered /\ NonEmptyQuery) =>
        /\ ret.appended # <<>>
        /\ history # <<>>
        /\ history[Len(history)] = ret.appended[Len(ret.appended)]

(***************************************************************************)
(* Frame conditions of the context methods (Spec)                          *)
(***************************************************************************)
\* C21: from any reachable state clear() leaves the context as __init__
\* leaves one with the same max_history (session_id is never assigned after
\* construction): empty history, no last intent or parameters, no staged
\* search, no cached flights; max_history is unchanged.
C21_ClearIsFresh ==
    [][ Clear =>
          /\ history' = <<>>
          /\ last_intent' = None
          /\ last_parameters' = NoObject
          /\ current_flight_search' = NoObject
          /\ last_flight_results' = <<>>
          /\ max_history' = max_history
          /\ FreshContext(max_history)' ]_vars

\* clear() has run after every allowed add_message was made
C21_Witness ==
    /\ ret.call = "clear"
    /\ budget = 0
    /\ FreshContext(max_history)

\* C22: update_flight_results(flights) makes last_flight_results the given
\* list, whatever was cached before; a staged search gets the same list as
\* its results and keeps its search parameters; history, last_intent and
\* last_parameters do not change, and nothing is staged by the call.
C22_ResultsReplacedWholesale ==
    [][ ret'.call = "update_flight_results" =>
        \A flight_results \in CtxFlightLists :
          UpdateFlightResults(flight_results) =>
            /\ last_flight_results' = flight_results
            /\ current_flight_search' =
                  IF current_flight_search = NoObject
                  THEN NoObject
                  ELSE Some([search_params |-> current_flight_search[1].search_params,
                             results |-> flight_results])
            /\ UNCHANGED <<history, last_intent, last_parameters>> ]_vars

\* a staged search holds the one flight just handed over
C22_Witness ==
    /\ ret.call = "update_flight_results"
    /\ history # <<>>
    /\ last_flight_results = SubSeq(FlightCatalog, 1, 1)
    /\ current_flight_search =
          Some([search_params |-> SearchParams, results |-> last_flight_results])

\* C23: add_message stages a current flight search (the parameters and an
\* empty result list) exactly when the intent is the member FLIGHT_SEARCH
\* and the parameters are a non-empty dictionary; last_intent and
\* last_parameters are set when an intent is given; a message without
\* intent leaves last_intent, last_parameters, the staged record and
\* last_flight_results as they were.
C23_StagingRule ==
    [][ ret'.call = "add_message" =>
        \A role \in Roles, intent \in IntentInputs, parameters \in ParameterInputs :
          AddMessage(role, ContentOf(role), intent, parameters) =>
            /\ (intent = FLIGHT_SEARCH /\ parameters \notin {NoObject, Some(EmptyDict)}) =>
                  current_flight_search' =
                      Some([search_params |-> parameters[1], results |-> <<>>])
            /\ ~(intent = FLIGHT_SEARCH /\ parameters \notin {NoObject, Some(EmptyDict)}) =>
                  current_flight_search' = current_flight_search
            /\ intent # None => (last_intent' = intent /\ last_parameters' = parameters)
            /\ intent = None =>
                  UNCHANGED <<last_intent, last_parameters, current_flight_search>>
            /\ last_flight_results' = last_flight_results ]_vars

\* a flight search was staged over cached flights, which stay cached
C23_Witness ==
    /\ ret.call = "add_message"
    /\ last_intent = FLIGHT_SEARCH
    /\ last_parameters = Some(SearchParams)
    /\ current_flight_search = Some([search_params |-> SearchParams, results |-> <<>>])
    /\ last_flight_results # <<>>

(***************************************************************************)
(* Order of the keyword rules (SpecIntent)                                 *)
(***************************************************************************)
\* the classification came from the keyword stage or a later one: the text
\* is not blank, no regex pattern matched and the context resolved nothing
PastPatterns ==
    /\ Detected
    /\ ~ret.detected.raised
    /\ ret.detected.reason \notin
          {"empty_message", "flight_pattern", "policy_pattern", "context_reference"}

\* both ends of the route are in the parameters of the result
RouteExtracted ==
    /\ Truthy(DictGet(ret.detected.parameters, "origin", None))
    /\ Truthy(DictGet(ret.detected.parameters, "destination", None))

\* the four keyword rules in the order greeting, flight, policy, baggage
KeywordRules(result, flight_count, policy_count, greeting_count, has_baggage) ==
    LET greeting == greeting_count >= 1 /\ flight_count = 0 /\ policy_count = 0
    IN  /\ greeting =>
              /\ result.reason = "greeting"
              /\ result.intent = "general_chat" /\ result.confidence = 900
        /\ result.reason = "greeting" => greeting
        /\ flight_count >= 2 =>
              /\ result.intent = "flight_search"
              /\ result.confidence = IF RouteExtracted THEN 890 ELSE 750
        /\ result.confidence \in {890, 750} => flight_count >= 2
        /\ (policy_count >= 2 /\ flight_count < 2) =>
              /\ result.reason = "policy_keywords"
              /\ result.intent = "policy_question" /\ result.confidence = 800
        /\ result.reason = "policy_keywords" => (policy_count >= 2 /\ flight_count < 2)
        /\ (has_baggage /\ flight_count = 0 /\ policy_count < 2) =>
              /\ result.reason = "baggage_only"
              /\ result.intent = "policy_question" /\ result.confidence = 850
        /\ result.reason = "baggage_only" =>
              (has_baggage /\ flight_count = 0 /\ policy_count < 2)

\* C24: past the regex patterns and the context stage the keyword rules
\* apply in the order greeting, flight, policy, baggage-only: greeting
\* needs no flight and no policy keyword; two or more distinct flight
\* keywords give flight_search (0.89 with origin and destination
\* extracted, else 0.75) even beside two or more policy keywords;
\* policy_question 0.80 needs two policy keywords and fewer than two flight
\* keywords; the baggage-only rule (0.85) needs no flight keyword.
C24_KeywordRuleOrder ==
    PastPatterns =>
        KeywordRules(ret.detected,
                     count_keywords(str_lower(str_strip(user_message)), FLIGHT_KEYWORDS),
                     count_keywords(str_lower(str_strip(user_message)), POLICY_KEYWORDS),
                     count_keywords(str_lower(str_strip(user_message)), GREETING_KEYWORDS),
                     \/ str_in("baggage", str_lower(str_strip(user_message)))
                     \/ str_in("luggage", str_lower(str_strip(user_message))))

\* two flight keywords beside two policy keywords: classified flight_search
C24_Witness ==
    /\ PastPatterns
    /\ ret.detected.intent = "flight_search"
    /\ ret.detected.confidence = 750
    /\ count_keywords(str_lower(user_message), FLIGHT_KEYWORDS) >= 2
    /\ count_keywords(str_lower(user_message), POLICY_KEYWORDS) >= 2

(***************************************************************************)
(* Width of the store query (SpecRag)                                      *)
(***************************************************************************)
\* C25: whenever search queries the store, it asks for strictly more
\* candidates than the k it will return (k_results when k is not given).
C25_SearchesBroader ==
    (Searched /\ ret.found.db_calls = 1) => search_k > KUsed

(***************************************************************************)
(* The context text handed to the language model (SpecRag)                 *)
(***************************************************************************)
\* the number of places of text where sub starts
Occurrences(text, sub) ==
    Cardinality({i \in 1..(Len(text) - Len(sub) + 1) :
                    SubSeq(text, i, i + Len(sub) - 1) = sub})

\* C26: the context text assembled by get_context holds the content of a
\* stored chunk at most once, also when several of the returned chunks
\* have exactly that content.
C26_ContextDeduplicated ==
    ret.call = "get_context" =>
        \A i \in 1..Len(db_docs) : Occurrences(ret.text, doc_content(db_docs[i])) <= 1

(***************************************************************************)
(* Reference by flight number (SpecRef)                                    *)
(***************************************************************************)
\* C27: a message that is the flight number of a cached flight, in either
\* case, and holds no ordinal word and no time of day, resolves with
\* reference_type = "flight_number" to the cached flight of exactly that
\* number, whichever cached flight is named.
C27_FlightNumberResolves ==
    Resolved =>
        \A i \in 1..Len(last_flight_results) :
            (/\ str_upper(user_message) = last_flight_results[i].flight_number
             /\ OrdinalsIn(user_message) = {}
             /\ ~str_in(":", user_message)) =>
                /\ ret.resolved.has_reference
                /\ ret.resolved.reference_type = "flight_number"
                /\ ret.resolved.flight_number = last_flight_results[i].flight_number
                /\ ret.resolved.referenced_flight.flight_number =
                      last_flight_results[i].flight_number

(***************************************************************************)
(* Passenger count (SpecExtract)                                           *)
(***************************************************************************)
\* the count stated in the text as the passenger pattern reads it, 0 when
\* none is stated
StatedPassengers ==
    IF passenger_match(str_lower(user_message)) = "" THEN 0
    ELSE str_int(passenger_match(str_lower(user_message)))

\* C28: the passengers value of extract_flight_parameters lies in 1..9: a
\* stated count above 9 gives 9, a stated count below 1 gives 1, a stated
\* count in range is returned as it is, and 1 is returned when the text
\* states no count.
C28_PassengersClamped ==
    Extracted =>
        /\ ret.params.passengers \in 1..9
        /\ ret.params.passengers =
              IF passenger_match(str_lower(user_message)) = "" THEN 1
              ELSE IF StatedPassengers > 9 THEN 9
              ELSE IF StatedPassengers < 1 THEN 1
              ELSE StatedPassengers

(***************************************************************************)
(* Intents the engine stores in the context (SpecEngine)                   *)
(***************************************************************************)
\* C29: after any sequence of process_query calls with the context,
\* last_intent and the intent of every Message of the history are unset or
\* members of IntentType, get_conversation_summary does not raise, and a
\* turn stored as a flight search with parameters has staged a current
\* flight search.
C29_StoredIntentsAreMembers ==
    /\ last_intent \in IntentType \cup {None}
    /\ \A i \in 1..Len(history) : history[i].intent \in IntentType \cup {None}
    /\ ~get_conversation_summary.raised
    /\ (/\ Processed
        /\ ret.appended # <<>>
        /\ ret.turn.detected.intent = "flight_search"
        /\ ParamsTruthy(ret.appended[1].parameters)) => current_flight_search # NoObject

(***************************************************************************)
(* The history bound at max_history = 0 (Spec)                             *)
(***************************************************************************)
\* C30: in a context constructed with max_history = 0 the history never
\* holds more than max_history messages: it stays empty whatever is added.
C30_ZeroBoundHolds ==
    max_history = 0 =>
        /\ Len(history) <= max_history
        /\ history = <<>>

====
